---- MODULE Spec2Model ----
(***************************************************************************)
(* Model of the extraction step of the medical-jobs pipeline               *)
(* (src/extract.py): the main loop with its age filter, cache lookup,      *)
(* empty-text skip, LLM call, post-processing overlay, cap, and the final  *)
(* deduplication, cache save and output write.                             *)
(*                                                                         *)
(* Encoding of values                                                      *)
(*   - a text value (job_title, company, raw title, raw_content, a date     *)
(*     string, a bullet) is a sequence of symbols: " " is whitespace and   *)
(*     every other symbol is a run of characters without whitespace (one   *)
(*     character, a word, a number, a mark); <<>> is the empty string;     *)
(*   - a URL is a TLA+ string, "" being the empty string;                  *)
(*   - a date is a day number > 0.                                         *)
(***************************************************************************)
EXTENDS Integers, Sequences, FiniteSets, TLC

VARIABLES
    rawFile,        \* json/raw_jobs.json: the list of raw jobs
    cacheFile,      \* docs/extraction_cache.json
    outFile,        \* docs/master_jobs.json
    max,            \* args.max
    max_age_days,   \* args.max_age_days
    pc,             \* position of main(): start, loop, llm, save, write, done
    jobs_list,      \* main: jobs_list (sorted at start)
    i,              \* index in jobs_list of the job the loop is at
    cache,          \* main: cache (in memory)
    extracted,      \* main: extracted
    processed,      \* main: processed
    skipped_date,   \* main: skipped_date
    skipped_empty,  \* main: skipped_empty
    errors,         \* main: errors
    cache_hits,     \* main: cache_hits
    deduped_count,  \* main: deduped_count
    examined,       \* history: indices of the jobs the loop body was entered for
    lookups,        \* history: indices of the jobs whose URL was looked up in the cache
    llm_sent,       \* history: indices of the jobs sent to the LLM, in order
    contributed,    \* history: indices of the jobs that appended a record to extracted
    cache_writes,   \* history: number of times the cache file was written
    dd_in,          \* deduplicate_jobs alone: the list given to the first pass
    dd_jobs,        \* deduplicate_jobs alone: jobs (the argument of the running pass)
    dd_pos,         \* deduplicate_jobs alone: position of the for loop in jobs
    dd_st,          \* deduplicate_jobs alone: seen and unique_jobs
    dd_kept,        \* history: positions of dd_in that the first pass appended
    dd_once,        \* deduplicate_jobs alone: what the first pass returned
    arg,            \* a function run alone: its arguments
    ret,            \* a function run alone: what it returned
    io,             \* an entry point: its reads, writes and requests, in order
    page,           \* a scraper: page, the listing page its loop is at
    job_links,      \* a scraper: job_links, the jobs of the listing pages read so far
    link_i,         \* a scraper: position of the details loop in job_links
    all_jobs,       \* a scraper, or run_scrapers: all_jobs
    selected,       \* run_scrapers: selected
    sel_i,          \* run_scrapers: position of the for loop in selected
    results,        \* run_scrapers: results
    jsonFiles,      \* the files of json/ that run_scrapers has written
    returncodes     \* run_pipeline: result.returncode of each step that has ended

vars == <<rawFile, cacheFile, outFile, max, max_age_days, pc, jobs_list, i, cache,
          extracted, processed, skipped_date, skipped_empty, errors, cache_hits,
          deduped_count, examined, lookups, llm_sent, contributed, cache_writes,
          dd_in, dd_jobs, dd_pos, dd_st, dd_kept, dd_once, arg, ret, io,
          page, job_links, link_i, all_jobs, selected, sel_i, results, jsonFiles,
          returncodes>>

-----------------------------------------------------------------------------
(* Bounds of the model *)

MaxJobs == 3        \* longest raw job list
MaxCap == 2         \* largest value of --max
MaxAge == 1         \* largest value of --max-age-days
MaxDedup == 3       \* longest list given to deduplicate_jobs when it is run alone
MaxPerPage == 2     \* most jobs on one listing page of a site
MaxSelected == 2    \* most scraper names on the command line of main.py

-----------------------------------------------------------------------------
(* Text helpers: str.lower, str.strip *)

\* the symbols with upper-case letters, and their lower-case forms
LowerOf ==
    ("A" :> "a") @@ ("N" :> "n")
    @@ ("Apply" :> "apply") @@ ("Now" :> "now") @@ ("Click" :> "click")
    @@ ("Email" :> "email") @@ ("E-mail" :> "e-mail") @@ ("Subject" :> "subject")
    @@ ("How" :> "how") @@ ("Application" :> "application") @@ ("Method" :> "method")
    @@ ("Contact" :> "contact") @@ ("Staff" :> "staff") @@ ("Nurse" :> "nurse")
    @@ ("Thanks" :> "thanks") @@ ("Submit" :> "submit") @@ ("Use" :> "use")
    @@ ("Www" :> "www") @@ ("HR@X.ORG" :> "hr@x.org")
    @@ ("HTTP://X/JOBS" :> "http://x/jobs")
    @@ ("Jan" :> "jan") @@ ("January" :> "january") @@ ("Feb" :> "feb")
    @@ ("February" :> "february") @@ ("Fri" :> "fri") @@ ("Friday" :> "friday")
    @@ ("TH" :> "th") @@ ("Within" :> "within")
    @@ ("Senior" :> "senior") @@ ("Medical" :> "medical") @@ ("Officer" :> "officer")
    @@ ("Officers" :> "officers") @@ ("Inventory" :> "inventory")
    @@ ("Manager" :> "manager") @@ ("Dental" :> "dental")
    @@ ("Laboratory" :> "laboratory") @@ ("Scientist" :> "scientist")
    @@ ("Pharmacy" :> "pharmacy") @@ ("Midwifery" :> "midwifery")
    @@ ("Doctor" :> "doctor") @@ ("Public" :> "public") @@ ("Health" :> "health")
    @@ ("Project" :> "project") @@ ("HSE" :> "hse")
    @@ ("Physiotherapist" :> "physiotherapist") @@ ("Driver" :> "driver")

LowerChar(c) == IF c \in DOMAIN LowerOf THEN LowerOf[c] ELSE c

lower(s) == [k \in 1..Len(s) |-> LowerChar(s[k])]

RECURSIVE lstrip(_)
lstrip(s) == IF s # <<>> /\ Head(s) = " " THEN lstrip(Tail(s)) ELSE s

RECURSIVE rstrip(_)
rstrip(s) == IF s # <<>> /\ s[Len(s)] = " " THEN rstrip(SubSeq(s, 1, Len(s) - 1)) ELSE s

strip(s) == rstrip(lstrip(s))

-----------------------------------------------------------------------------
(* src/config.py: the helpers of the how_to_apply normalisation.              *)
(* The text they work on is a sequence of symbols: " " is whitespace, every   *)
(* other symbol is a run of characters without whitespace (a word, a mark, a  *)
(* URL, an address); symbols with no " " between them are written together.   *)

Min(a, b) == IF a < b THEN a ELSE b

\* a sentence: its words with one space between them
RECURSIVE Sentence(_)
Sentence(ws) ==
    IF ws = <<>> THEN <<>>
    ELSE IF Len(ws) = 1 THEN ws
    ELSE <<Head(ws), " ">> \o Sentence(Tail(ws))

\* "p in t"
Has(t, p) == \E k \in 1..(Len(t) - Len(p) + 1) : SubSeq(t, k, k + Len(p) - 1) = p

\* t.find(p), counted from 1; 0 when p is not in t
Find(t, p) ==
    IF Has(t, p)
    THEN CHOOSE k \in 1..(Len(t) - Len(p) + 1) :
            /\ SubSeq(t, k, k + Len(p) - 1) = p
            /\ \A m \in 1..(k - 1) : SubSeq(t, m, m + Len(p) - 1) # p
    ELSE 0

\* re.sub(r"\s+", " ", text).strip()
RECURSIVE squeeze(_)
squeeze(t) ==
    IF t = <<>> THEN <<>>
    ELSE IF Head(t) = " " /\ Len(t) > 1 /\ t[2] = " " THEN squeeze(Tail(t))
    ELSE <<Head(t)>> \o squeeze(Tail(t))

normalize_space(t) == strip(squeeze(t))

\* symbols that the pattern [a-zA-Z0-9._%+-]+@[a-zA-Z0-9.-]+\.[a-zA-Z]{2,} matches whole
EmailSymbols == {"hr@x.org", "HR@X.ORG"}

\* symbols from whose start https?://\S+ or www\.\S+ matches (the patterns are
\* case-sensitive)
UrlSymbols == {"https://x.org/job", "https://x", "http://x/jobs", "www.x.org"}

\* symbols that \w+\.\w+/?\S* matches whole
DomainSymbols == {"x.org"}

\* the symbols with a "." in them, and what each has before its first "."
BeforePeriod ==
    ("." :> <<>>) @@ ("hr@x.org" :> <<"hr@x">>) @@ ("HR@X.ORG" :> <<"HR@X">>)
    @@ ("https://x.org/job" :> <<"https://x">>) @@ ("www.x.org" :> <<"www">>)
    @@ ("x.org" :> <<"x">>)

\* re.sub(<e-mail pattern>, "", text)
remove_emails(t) == SelectSeq(t, LAMBDA c : c \notin EmailSymbols)

\* re.sub(r"https?://\S+|www\.\S+", "", text): a match runs to the next whitespace
RECURSIVE remove_urls(_, _)
remove_urls(t, inside) ==
    IF t = <<>> THEN <<>>
    ELSE IF Head(t) = " " THEN <<" ">> \o remove_urls(Tail(t), FALSE)
    ELSE IF inside THEN remove_urls(Tail(t), TRUE)
    ELSE IF Head(t) \in UrlSymbols THEN remove_urls(Tail(t), TRUE)
    ELSE IF Head(t) = "www" /\ Len(t) > 2 /\ t[2] = "." /\ t[3] # " "
         THEN remove_urls(Tail(t), TRUE)
    ELSE <<Head(t)>> \o remove_urls(Tail(t), FALSE)

\* lines 48-55
clean_text(text) ==
    normalize_space(remove_urls(remove_emails(normalize_space(text)), FALSE))

\* mutant: only a text that is nothing but a domain looks like a URL
looks_like_url_whole_only(text) ==
    LET t == lower(strip(text))
    IN  t # <<>> /\ t[1] \in DomainSymbols /\ \A k \in 1..Len(t) : t[k] # " "

\* lines 58-62
looks_like_url(text) ==
    LET t == lower(strip(text))
    IN  \/ \E k \in 1..Len(t) :
             \/ t[k] \in UrlSymbols
             \/ t[k] = "www" /\ k < Len(t) /\ t[k + 1] = "."
        \/ t # <<>> /\ t[1] \in DomainSymbols /\ \A k \in 1..Len(t) : t[k] # " "

\* lines 65-76: the markers, as symbols of the lower-cased text
has_protected_email(text) ==
    LET t == lower(text)
    IN  \/ \E k \in 1..(Len(t) - 2) :
             /\ t[k] \in {"email", "[email"}
             /\ t[k + 1] = " "
             /\ t[k + 2] \in {"protected", "protected]", "redacted", "redacted]"}
        \/ \E k \in 1..Len(t) : t[k] \in {"__cf_email__", "email-protection", "protected]"}

apply_section_chars == 2000
subject_chars == 120

\* lines 83-88
anchors ==
    << <<"how", " ", "to", " ", "apply">>,
       <<"method", " ", "of", " ", "application">>,
       <<"application", " ", "procedure">>,
       <<"application", " ", "method">> >>

\* lines 79-95: the slice that starts at the first anchor of the list that is found
extract_apply_section(text) ==
    LET found == { a \in 1..Len(anchors) : Has(lower(text), anchors[a]) }
    IN  IF found = {} THEN <<>>
        ELSE LET a == CHOOSE x \in found : \A y \in found : x <= y
                 idx == Find(lower(text), anchors[a])
             IN  clean_text(SubSeq(text, idx,
                                   Min(Len(text), idx + apply_section_chars - 1)))

RECURSIVE SkipSpaces(_, _)
SkipSpaces(t, k) == IF k <= Len(t) /\ t[k] = " " THEN SkipSpaces(t, k + 1) ELSE k

\* the longest run [^\n\r\.]+ that starts at k
RECURSIVE UpToPeriod(_, _)
UpToPeriod(t, k) ==
    IF k > Len(t) THEN <<>>
    ELSE IF t[k] \in DOMAIN BeforePeriod THEN BeforePeriod[t[k]]
    ELSE <<t[k]>> \o UpToPeriod(t, k + 1)

\* \s*([^\n\r\.]+) from position p: the group, or <<>> when there is no match; the
\* whitespace is given back to the group when nothing else can be in it
GroupFrom(t, p) ==
    LET q == SkipSpaces(t, p)
    IN  IF UpToPeriod(t, q) # <<>> THEN UpToPeriod(t, q)
        ELSE IF q > p THEN <<" ">>
        ELSE <<>>

\* subject\s*[:\-]\s*([^\n\r\.]+) matching at k
SubjectAt(t, k) ==
    LET p == SkipSpaces(t, k + 1)
    IN  IF lower(t)[k] = "subject" /\ p <= Len(t) /\ t[p] \in {":", "-"}
        THEN GroupFrom(t, p + 1)
        ELSE <<>>

with_the_subject == <<"with", " ", "the", " ", "subject">>
using_the_job_title == <<"using", " ", "the", " ", "job", " ", "title", " ", "as",
                         " ", "the", " ", "subject">>

\* with the subject\s*[:\-]?\s*([^\n\r\.]+) matching at k, in a text in which the
\* first pattern matches nowhere
WithSubjectAt(t, k) ==
    IF k + 4 <= Len(t) /\ SubSeq(lower(t), k, k + 4) = with_the_subject
    THEN GroupFrom(t, k + 5)
    ELSE <<>>

\* re.search: the leftmost match
First(S) == CHOOSE k \in S : \A m \in S : k <= m

\* lines 98-112
extract_subject(text) ==
    LET one == { k \in 1..Len(text) : SubjectAt(text, k) # <<>> }
        two == { k \in 1..Len(text) : WithSubjectAt(text, k) # <<>> }
        cut(s) == SubSeq(s, 1, Min(Len(s), subject_chars))
    IN  IF one # {} THEN cut(clean_text(SubjectAt(text, First(one))))
        ELSE IF two # {} THEN cut(clean_text(WithSubjectAt(text, First(two))))
        ELSE IF Has(lower(text), using_the_job_title)
             THEN Sentence(<<"Use", "the", "job", "title", "as", "the", "subject">>)
        ELSE <<>>

\* lines 118-125
phrases ==
    { <<"apply", " ", "online">>,
      <<"apply", " ", "through", " ", "the", " ", "link">>,
      <<"click", " ", "here", " ", "to", " ", "apply">>,
      <<"application", " ", "portal">>,
      <<"career", " ", "portal">>,
      <<"apply", " ", "now">> }

\* lines 129-138
ats_markers ==
    {"workday", "myworkdayjobs", "greenhouse", "lever.co", "smartrecruiters", "icims",
     "taleo", "/apply"}

\* the markers that are substrings of a URL, lower-cased
MarkersIn(url) ==
    IF url = "https://acme.myworkdayjobs.com/job/7" THEN {"workday", "myworkdayjobs"}
    ELSE IF url = "https://clinic.org/Apply/12" THEN {"/apply"}
    ELSE {}

\* lines 115-139
is_portal_apply(text, apply_url) ==
    \/ \E p \in phrases : Has(lower(text), p)
    \/ MarkersIn(apply_url) \cap ats_markers # {}

\* Python's join of the bullets' texts with " "
RECURSIVE join(_)
join(items) ==
    IF items = <<>> THEN <<>>
    ELSE IF Len(items) = 1 THEN items[1]
    ELSE items[1] \o <<" ">> \o join(Tail(items))

\* model_list when the LLM gave no list
NotAList == [list |-> FALSE]

PortalBullet ==
    Sentence(<<"Submit", "your", "application", "through", "the", "employer's",
               "online", "recruitment", "portal">>) \o <<".">>
ClickApplyNow == Sentence(<<"Click", "Apply", "Now", "for", "full", "details">>) \o <<".">>
ApplyViaButton ==
    Sentence(<<"Apply", "via", "the", "Apply", "Now", "button", "for", "full",
               "details">>) \o <<".">>
EmailTheAddress ==
    Sentence(<<"Email", "the", "address", "shown", "on", "the", "original", "listing">>)
ProtectedNote ==
    <<" ", "(">> \o Sentence(<<"email", "is", "protected", "on", "some", "sites">>)
    \o <<")", ".">>
\* the phrase of line 194, its dash written "--"
see_original_listing ==
    Sentence(<<"email", "protected", "--", "see", "original", "listing">>)

\* mutant: the e-mail instruction is looked at before the portal markers
candidate_bullets_email_first(has_portal, has_email, has_apply_url, protected, subject) ==
    LET line == EmailTheAddress
                \o (IF protected THEN ProtectedNote ELSE <<".">>)
                \o (IF subject # <<>>
                    THEN <<" ", "Subject", ":", " ">> \o subject \o <<".">> ELSE <<>>)
        bullets == IF has_email THEN <<line>>
                   ELSE IF has_portal THEN <<PortalBullet, ClickApplyNow>>
                   ELSE IF has_apply_url THEN <<ApplyViaButton>>
                   ELSE <<>>
    IN  IF bullets = <<>> THEN <<ClickApplyNow>>
        ELSE IF ~Has(lower(bullets[Len(bullets)]), <<"apply", " ", "now">>)
             THEN Append(bullets, ClickApplyNow)
        ELSE bullets

\* lines 162-187: the bullets before they are cleaned
candidate_bullets(has_portal, has_email, has_apply_url, protected, subject) ==
    LET line == EmailTheAddress
                \o (IF protected THEN ProtectedNote ELSE <<".">>)
                \o (IF subject # <<>>
                    THEN <<" ", "Subject", ":", " ">> \o subject \o <<".">> ELSE <<>>)
        bullets == IF has_portal THEN <<PortalBullet, ClickApplyNow>>
                   ELSE IF has_email THEN <<line>>
                   ELSE IF has_portal \/ has_apply_url THEN <<ApplyViaButton>>
                   ELSE <<>>
    IN  IF bullets = <<>> THEN <<ClickApplyNow>>
        ELSE IF ~Has(lower(bullets[Len(bullets)]), <<"apply", " ", "now">>)
                /\ lower(bullets[Len(bullets)]) # lower(ClickApplyNow)
             THEN Append(bullets, ClickApplyNow)
        ELSE bullets

\* mutant: only the first bullet is kept
clean_bullets_first_only(bullets) ==
    LET cleaned == SelectSeq([k \in 1..Len(bullets) |-> clean_text(bullets[k])],
                             LAMBDA b : /\ b # <<>>
                                        /\ ~looks_like_url(b)
                                        /\ ~Has(lower(b), see_original_listing))
    IN  IF cleaned = <<>> THEN <<ClickApplyNow>>
        ELSE SubSeq(cleaned, 1, Min(Len(cleaned), 1))

\* lines 189-197
clean_bullets(bullets) ==
    LET cleaned == SelectSeq([k \in 1..Len(bullets) |-> clean_text(bullets[k])],
                             LAMBDA b : /\ b # <<>>
                                        /\ ~looks_like_url(b)
                                        /\ ~Has(lower(b), see_original_listing))
    IN  IF cleaned = <<>> THEN <<ClickApplyNow>>
        ELSE SubSeq(cleaned, 1, Min(Len(cleaned), 2))

\* lines 142-197
normalize_how_to_apply(model_list, raw_job, apply_url) ==
    LET model_items ==
            IF ~model_list.list THEN <<>>
            ELSE SelectSeq([k \in 1..Len(model_list.items) |-> clean_text(model_list.items[k])],
                           LAMBDA x : x # <<>>)
        joined_model == join(model_items)
        raw_content == raw_job.raw_content
        raw_text == clean_text(raw_content)
        apply_section == extract_apply_section(raw_content)
        source_text == IF apply_section # <<>> THEN apply_section ELSE raw_text
        subject == extract_subject(source_text)
        protected == has_protected_email(raw_text) \/ has_protected_email(joined_model)
        has_email == (\E k \in 1..Len(source_text) :
                         lower(source_text)[k] \in {"email", "[email", "e-mail"})
                     \/ protected
        has_portal == is_portal_apply(source_text, apply_url)
        has_apply_url == apply_url # ""
    IN  clean_bullets(candidate_bullets(has_portal, has_email, has_apply_url,
                                        protected, subject))

-----------------------------------------------------------------------------
(* Dates.  A date string is a sequence of symbols as above: numbers ("27",     *)
(* "01", "2026"), month and weekday names, the marks "/", "-", ",", ".", the   *)
(* ordinal suffixes, "T" and a time of day.  A date is a day number, day 1    *)
(* being 1 January of FirstYear.                                              *)

None == 0           \* parse_date's "no date"
DateMin == 0        \* datetime.min.date(): before every day number

Years == 2026..2027  \* the years of the model's calendar (none is a leap year)
FirstYear == CHOOSE y \in Years : \A z \in Years : y <= z
LastYear == CHOOSE y \in Years : \A z \in Years : y >= z

Pad2 == <<"01", "02", "03", "04", "05", "06", "07", "08", "09", "10", "11", "12", "13",
          "14", "15", "16", "17", "18", "19", "20", "21", "22", "23", "24", "25", "26",
          "27", "28", "29", "30", "31">>

month_names == <<"january", "february", "march", "april", "may", "june", "july",
                 "august", "september", "october", "november", "december">>
month_abbrs == <<"jan", "feb", "mar", "apr", "may", "jun", "jul", "aug", "sep", "oct",
                 "nov", "dec">>
day_names == {"monday", "tuesday", "wednesday", "thursday", "friday", "saturday", "sunday"}
day_abbrs == {"mon", "tue", "wed", "thu", "fri", "sat", "sun"}
month_days == <<31, 28, 31, 30, 31, 30, 31, 31, 30, 31, 30, 31>>

\* the symbols that are numbers
Numbers ==
    { ToString(n) : n \in 0..Len(Pad2) } \cup { Pad2[n] : n \in 1..Len(Pad2) }
    \cup { ToString(n) : n \in FirstYear..LastYear }

\* int(c) for the symbols that are numbers
int ==
    [c \in Numbers |->
        IF \E n \in 1..Len(Pad2) : c = Pad2[n] THEN CHOOSE n \in 1..Len(Pad2) : c = Pad2[n]
        ELSE IF \E n \in 0..Len(Pad2) : c = ToString(n)
             THEN CHOOSE n \in 0..Len(Pad2) : c = ToString(n)
        ELSE CHOOSE n \in FirstYear..LastYear : c = ToString(n)]

\* the number from lo to hi that a symbol is the decimal form of, 0 when it is none
InRange(n, lo, hi) == IF n >= lo /\ n <= hi THEN n ELSE 0
NumberIn(c, lo, hi) == IF c \in Numbers THEN InRange(int[c], lo, hi) ELSE 0

\* the place of a name in a list of names, 0 when it is not in the list
IndexIn(names, c) ==
    IF \E n \in 1..Len(names) : names[n] = c
    THEN CHOOSE n \in 1..Len(names) : names[n] = c
    ELSE 0

RECURSIVE DaysBefore(_)
DaysBefore(m) == IF m = 1 THEN 0 ELSE DaysBefore(m - 1) + month_days[m - 1]

\* date(y, m, d), None for a day the month does not have
date(y, m, d) ==
    IF d <= month_days[m] THEN (y - FirstYear) * 365 + DaysBefore(m) + d ELSE None

\* date.isoformat()
isoformat(n) ==
    LET doy == ((n - 1) % 365) + 1
        m == CHOOSE x \in 1..12 : DaysBefore(x) < doy /\ doy <= DaysBefore(x) + month_days[x]
    IN  <<ToString(FirstYear + ((n - 1) \div 365)), "-", Pad2[m], "-",
          Pad2[doy - DaysBefore(m)]>>

\* lines 26-34, one directive or literal per symbol
DATE_FORMATS ==
    << <<"%d", "/", "%b", "/", "%Y">>,
       <<"%d", "-", "%m", "-", "%Y">>,
       <<"%d", "-", "%m", "-", "%Y", " ", "-", " ", "%a">>,
       <<"%d", "-", "%m", "-", "%Y", " ", "-", " ", "%A">>,
       <<"%Y", "-", "%m", "-", "%d">>,
       <<"%d", " ", "%B", " ", "%Y">>,
       <<"%d", " ", "%b", " ", "%Y">> >>

\* what a directive reads in a symbol: a number > 0, or 0 when the symbol does not fit
Reads(directive, c) ==
    IF directive \in {"%d", "%m", "%Y"}
    THEN NumberIn(c, IF directive = "%Y" THEN FirstYear ELSE 1,
                  IF directive = "%d" THEN 31 ELSE IF directive = "%m" THEN 12 ELSE LastYear)
    ELSE IF directive \in {"%b", "%B"}
    THEN IndexIn(IF directive = "%b" THEN month_abbrs ELSE month_names, LowerChar(c))
    ELSE IF directive = "%a" THEN (IF LowerChar(c) \in day_abbrs THEN 1 ELSE 0)
    ELSE IF directive = "%A" THEN (IF LowerChar(c) \in day_names THEN 1 ELSE 0)
    ELSE IF directive = c THEN 1 ELSE 0

\* the date of what the directives of a format have read, None when one read nothing
date_read(fmt, read) ==
    IF \A k \in 1..Len(fmt) : read[k] > 0
    THEN LET field(ds) == read[CHOOSE k \in 1..Len(fmt) : fmt[k] \in ds]
         IN  date(field({"%Y"}), field({"%m", "%b", "%B"}), field({"%d"}))
    ELSE None

\* datetime.strptime(s, fmt).date(), None for ValueError
strptime(s, fmt) ==
    IF Len(s) = Len(fmt)
    THEN date_read(fmt, [k \in 1..Len(fmt) |-> Reads(fmt[k], s[k])])
    ELSE None

\* the times of day that fromisoformat accepts
TimesOfDay == {"10:30:00"}

\* a symbol that is two digits
Padded == { Pad2[n] : n \in 1..Len(Pad2) }

\* datetime.fromisoformat(s).date(), None for ValueError: YYYY-MM-DD, alone or
\* followed by one separator character and a time of day
fromisoformat(s) ==
    IF /\ Len(s) \in {5, 7}
       /\ s[2] = "-" /\ s[4] = "-"
       /\ Len(s) = 7 => (s[6] \in {"T", " "} /\ s[7] \in TimesOfDay)
    THEN date_read(<<"%Y", "%m", "%d">>,
                   [k \in 1..3 |-> IF k = 1 \/ s[2 * k - 1] \in Padded
                                   THEN Reads(<<"%Y", "%m", "%d">>[k], s[2 * k - 1])
                                   ELSE 0])
    ELSE None

\* the symbols that begin with the letter "T" (no other symbol has one)
StartsWithT == {"T", "TH", "Tue", "Thu", "Tuesday", "Thursday", "TBD"}

\* the symbols that are made of letters or digits: no word boundary between two of them
IsWord(c) == c \notin {" ", "/", "-", ",", ".", "(", ")", ":"}

\* re.sub(r"(\d+)(st|nd|rd|th)\b", r"\1", s, flags=re.I)
RECURSIVE strip_ordinals(_, _)
strip_ordinals(s, k) ==
    IF k > Len(s) THEN <<>>
    ELSE IF /\ LowerChar(s[k]) \in {"st", "nd", "rd", "th"}
            /\ k > 1 /\ s[k - 1] \in Numbers
            /\ k < Len(s) => ~IsWord(s[k + 1])
         THEN strip_ordinals(s, k + 1)
    ELSE <<s[k]>> \o strip_ordinals(s, k + 1)

\* rstrip(".")
RECURSIVE rstrip_periods(_)
rstrip_periods(s) ==
    IF s # <<>> /\ s[Len(s)] = "." THEN rstrip_periods(SubSeq(s, 1, Len(s) - 1)) ELSE s

\* mutant: the ordinal suffixes are left in the string
normalize_date_keeps_ordinals(s) ==
    squeeze(rstrip_periods(strip(SelectSeq(strip(s), LAMBDA c : c # ","))))

\* lines 73-76
normalize_date(s) ==
    squeeze(rstrip_periods(strip(SelectSeq(strip_ordinals(strip(s), 1),
                                           LAMBDA c : c # ","))))

\* lines 70-91
\* s.split("T", 1)[0] when "T" is in s, and nothing that is a date when it is not
before_T(s) ==
    LET ts == { k \in 1..Len(s) : s[k] \in StartsWithT }
    IN  IF ts # {} THEN SubSeq(s, 1, First(ts) - 1) ELSE <<>>

\* the first date of a list of attempts, None when every attempt failed
first_date(dates) ==
    LET hits == { k \in 1..Len(dates) : dates[k] # None }
    IN  IF hits # {} THEN dates[First(hits)] ELSE None

\* lines 77-90 on the normalised string: each format in turn, then fromisoformat on
\* the string and on what is before its first "T"
parse_normalized(n) ==
    first_date([f \in 1..Len(DATE_FORMATS) |-> strptime(n, DATE_FORMATS[f])]
               \o [k \in 1..2 |-> fromisoformat(IF k = 1 THEN n ELSE before_T(n))])

\* lines 70-91
parse_date_steps(s) == IF s = <<>> THEN None ELSE parse_normalized(normalize_date(s))

\* datetime.now().isoformat() on day n (scrapers/base.py, line 40)
Stamp(n) == isoformat(n) \o <<"T", "10:30:00">>

\* the date strings of the raw jobs and of the records of an extraction run
JobDateStrings ==
    {<<>>, <<"soon">>, <<"2", "nd", " ", "Jan", ",", " ", "2026">>,
     <<"6", " ", "weeks">>, <<"23", "rd", " ", "Jan", ",", " ", "2026">>}
    \cup { isoformat(n) : n \in 1..3 } \cup { Stamp(n) : n \in 1..3 }

\* parse_date of these strings, worked out once
parsed == [s \in JobDateStrings |-> parse_date_steps(s)]

\* parse_date, a pure function
parse_date(s) == IF s \in JobDateStrings THEN parsed[s] ELSE parse_date_steps(s)

\* lines 36-43
RELATIVE_DEADLINE_UNITS ==
    ("day" :> 1) @@ ("days" :> 1) @@ ("week" :> 7) @@ ("weeks" :> 7)
    @@ ("month" :> 30) @@ ("months" :> 30)

\* lines 45-67
NUMBER_WORDS ==
    ("one" :> 1) @@ ("two" :> 2) @@ ("three" :> 3) @@ ("four" :> 4) @@ ("five" :> 5)
    @@ ("six" :> 6) @@ ("seven" :> 7) @@ ("eight" :> 8) @@ ("nine" :> 9) @@ ("ten" :> 10)
    @@ ("eleven" :> 11) @@ ("twelve" :> 12) @@ ("thirteen" :> 13) @@ ("fourteen" :> 14)
    @@ ("fifteen" :> 15) @@ ("sixteen" :> 16) @@ ("seventeen" :> 17)
    @@ ("eighteen" :> 18) @@ ("nineteen" :> 19) @@ ("twenty" :> 20) @@ ("thirty" :> 30)

\* a word boundary before position k, and after it
BoundaryBefore(t, k) == k = 1 \/ ~IsWord(t[k - 1])
BoundaryAfter(t, k) == k = Len(t) \/ ~IsWord(t[k + 1])

\* re.sub(r"\((\d+)\)", r"\1", cleaned)
RECURSIVE unparenthesize(_)
unparenthesize(t) ==
    IF t = <<>> THEN <<>>
    ELSE IF Len(t) >= 3 /\ t[1] = "(" /\ t[2] \in Numbers /\ t[3] = ")"
         THEN <<t[2]>> \o unparenthesize(SubSeq(t, 4, Len(t)))
    ELSE <<Head(t)>> \o unparenthesize(Tail(t))

\* re.sub(r"\b(\d+)\s+\1\b", r"\1", cleaned), in a text with single spaces
RECURSIVE collapse_duplicates(_, _)
collapse_duplicates(t, k) ==
    IF k > Len(t) THEN <<>>
    ELSE IF /\ t[k] \in Numbers /\ BoundaryBefore(t, k)
            /\ k + 2 <= Len(t) /\ t[k + 1] = " " /\ t[k + 2] = t[k]
            /\ BoundaryAfter(t, k + 2)
         THEN <<t[k]>> \o collapse_duplicates(t, k + 3)
    ELSE <<t[k]>> \o collapse_duplicates(t, k + 1)

\* mutant: the number words are left as they are
normalize_relative_keeps_words(text) ==
    LET spaced == [k \in 1..Len(unparenthesize(lower(strip(text)))) |->
                      IF unparenthesize(lower(strip(text)))[k] \in {",", "."} THEN " "
                      ELSE unparenthesize(lower(strip(text)))[k]]
    IN  collapse_duplicates(normalize_space(spaced), 1)

\* lines 94-111
_normalize_relative_deadline_text(text) ==
    LET opened == unparenthesize(lower(strip(text)))
        spaced == normalize_space([k \in 1..Len(opened) |->
                                      IF opened[k] \in {",", "."} THEN " " ELSE opened[k]])
        digits == [k \in 1..Len(spaced) |->
                      IF /\ spaced[k] \in DOMAIN NUMBER_WORDS
                         /\ BoundaryBefore(spaced, k) /\ BoundaryAfter(spaced, k)
                      THEN ToString(NUMBER_WORDS[spaced[k]]) ELSE spaced[k]]
    IN  collapse_duplicates(digits, 1)

\* lines 114-130
parse_relative_deadline(text, anchor_date) ==
    LET cleaned == _normalize_relative_deadline_text(text)
        matches == { k \in 1..Len(cleaned) :
                        /\ cleaned[k] \in Numbers /\ BoundaryBefore(cleaned, k)
                        /\ SkipSpaces(cleaned, k + 1) <= Len(cleaned)
                        /\ cleaned[SkipSpaces(cleaned, k + 1)] \in DOMAIN RELATIVE_DEADLINE_UNITS
                        /\ BoundaryAfter(cleaned, SkipSpaces(cleaned, k + 1)) }
        amount == NumberIn(cleaned[First(matches)], 0, Len(Pad2))
        unit == cleaned[SkipSpaces(cleaned, First(matches) + 1)]
        days == amount * RELATIVE_DEADLINE_UNITS[unit]
    IN  IF text = <<>> \/ anchor_date = None THEN None
        ELSE IF matches = {} THEN None
        ELSE IF days <= 0 THEN None
        ELSE anchor_date + days

\* parse_date of each string of a list
parse_dates(strings) == [k \in 1..Len(strings) |-> parse_date(strings[k])]

pick_date(job) ==
    first_date(parse_dates(<<job.date_posted, job.posted_date, job.date, job.scraped_at,
                             job._scraped_at>>))

\* a date, or the default when it is None
date_or(d, default) == IF d # None THEN d ELSE default

get_date(job) ==
    date_or(first_date(parse_dates(<<job.date_posted, job.posted_date, job.date,
                                     job._scraped_at>>)),
            DateMin)

today == 3          \* args.today, as a day number

cutoff == today - max_age_days

-----------------------------------------------------------------------------
(* Sorting: jobs_list.sort(key=get_date, reverse=True), a stable sort *)

RECURSIVE InsertDesc(_, _)
InsertDesc(sorted, x) ==
    IF sorted = <<>> THEN <<x>>
    ELSE IF get_date(Head(sorted)) >= get_date(x)
         THEN <<Head(sorted)>> \o InsertDesc(Tail(sorted), x)
         ELSE <<x>> \o sorted

RECURSIVE sort_newest_first(_)
sort_newest_first(s) ==
    IF s = <<>> THEN <<>>
    ELSE InsertDesc(sort_newest_first(SubSeq(s, 1, Len(s) - 1)), s[Len(s)])

-----------------------------------------------------------------------------
(* build_text: the labels of the parts it assembles, in order *)

NA == <<"n", "/", "a">>

\* add(label, value) for a text value
add(value) == value # <<>> /\ strip(value) # <<>> /\ lower(strip(value)) # NA

\* Python's "a or b" on date strings and on URLs
OrDate(a, b) == IF a # <<>> THEN a ELSE b
OrUrl(a, b) == IF a # "" THEN a ELSE b

build_text(job) ==
    (IF add(job.title) THEN <<"Title">> ELSE <<>>)
    \o (IF OrDate(job.date_posted, job.posted_date) # <<>> THEN <<"Date Posted">> ELSE <<>>)
    \o (IF OrUrl(job.link, job.job_url) # "" THEN <<"Apply URL">> ELSE <<>>)
    \o (IF job.raw_content # <<>> /\ add(job.raw_content) THEN <<"Raw Content">> ELSE <<>>)

\* apply_url = job.get("link") or job.get("job_url") or job.get("apply_url") or ""
apply_url_of(job) == OrUrl(job.link, OrUrl(job.job_url, job.apply_url))

\* job.get("_source", source_name)
Absent == "<absent>"
source_name == "raw_jobs.json"
source_of(job) == IF job._source = Absent THEN source_name ELSE job._source

-----------------------------------------------------------------------------
(* classify_job_category.  A title is a sequence of symbols; a keyword is one *)
(* too ("medical officer" is three symbols, "hse " two).                      *)

\* the words of the titles that hold a keyword's word without being it, and
\* where they hold it
WordsInside ==
    { <<"physiotherapist", "therapist", "end">>,
      <<"midwifery", "midwife", "start">>,
      <<"officers", "officer", "start">> }

\* "k in t" for a keyword k: as Has, but the first symbol of k may be the end
\* of a word of t, and its last symbol the start of one
Within(t, k) ==
    \E p \in 1..(Len(t) - Len(k) + 1) :
        \A m \in 1..Len(k) :
            \/ t[p + m - 1] = k[m]
            \/ /\ m = 1 /\ m = Len(k)
               /\ \E where \in {"start", "end"} : <<t[p], k[m], where>> \in WordsInside
            \/ m = 1 /\ m < Len(k) /\ <<t[p], k[m], "end">> \in WordsInside
            \/ m > 1 /\ m = Len(k) /\ <<t[p + m - 1], k[m], "start">> \in WordsInside

AnyIn(t, words) == \E w \in words : Within(t, Sentence(w))

\* the condition of the if statement that returns the label (t is the stripped,
\* lower-cased title)
Matches(label, t) ==
    CASE label = "Dentist" -> AnyIn(t, {<<"dentist">>, <<"dental">>})
      [] label = "Medical Laboratory Scientist" ->
            \/ AnyIn(t, {<<"medical", "laboratory">>})
            \/ AnyIn(t, {<<"laboratory">>}) /\ AnyIn(t, {<<"scientist">>})
      [] label = "Pharmacist" -> AnyIn(t, {<<"pharmacist">>, <<"pharmacy">>})
      [] label = "Nurse" ->
            AnyIn(t, {<<"midwife">>, <<"midwifery">>, <<"nurse">>, <<"nursing">>,
                      <<"matron">>})
      [] label = "Doctor" ->
            AnyIn(t, {<<"medical", "officer">>, <<"doctor">>, <<"physician">>,
                      <<"obstetrician">>, <<"gynaecologist">>, <<"gynecologist">>,
                      <<"general", "practitioner">>, <<"oncology">>})
      [] label = "Public Health" ->
            AnyIn(t, {<<"public", "health">>, <<"program", "officer">>,
                      <<"programme", "officer">>, <<"epidemiology">>, <<"surveillance">>,
                      <<"health", "systems">>, <<"health", "security">>,
                      <<"project", "officer">>})
      [] label = "Healthcare Management" ->
            \/ AnyIn(t, {<<"director">>, <<"manager">>, <<"coordinator">>, <<"provost">>,
                         <<"quality", "officer">>, <<"inventory">>, <<"warehouse">>})
            \/ Within(t, <<"hse", " ">>)
      [] label = "Allied Health" ->
            AnyIn(t, {<<"physiotherapist">>, <<"optometrist">>, <<"therapist">>,
                      <<"radiographer">>, <<"dietitian">>, <<"nutritionist">>})

\* mutant: the Nurse group is tried before the Pharmacist group
classify_nurse_before_pharmacist(title) ==
    LET t == lower(strip(title))
    IN  IF t = <<>> THEN ""
        ELSE IF Matches("Dentist", t) THEN "Dentist"
        ELSE IF Matches("Medical Laboratory Scientist", t) THEN "Medical Laboratory Scientist"
        ELSE IF Matches("Nurse", t) THEN "Nurse"
        ELSE IF Matches("Pharmacist", t) THEN "Pharmacist"
        ELSE IF Matches("Doctor", t) THEN "Doctor"
        ELSE IF Matches("Public Health", t) THEN "Public Health"
        ELSE IF Matches("Healthcare Management", t) THEN "Healthcare Management"
        ELSE IF Matches("Allied Health", t) THEN "Allied Health"
        ELSE ""

\* lines 248-276
classify_job_category(title) ==
    LET t == lower(strip(title))
    IN  IF t = <<>> THEN ""
        ELSE IF Matches("Dentist", t) THEN "Dentist"
        ELSE IF Matches("Medical Laboratory Scientist", t) THEN "Medical Laboratory Scientist"
        ELSE IF Matches("Pharmacist", t) THEN "Pharmacist"
        ELSE IF Matches("Nurse", t) THEN "Nurse"
        ELSE IF Matches("Doctor", t) THEN "Doctor"
        ELSE IF Matches("Public Health", t) THEN "Public Health"
        ELSE IF Matches("Healthcare Management", t) THEN "Healthcare Management"
        ELSE IF Matches("Allied Health", t) THEN "Allied Health"
        ELSE ""

-----------------------------------------------------------------------------
(* deduplicate_jobs *)

\* mutant: the key leaves the company out
dedup_key_title_only(j) == lower(strip(j.job_title))

\* lines 284-286
dedup_key(j) ==
    lower(strip(j.job_title)) \o <<"|">> \o lower(strip(j.company))

\* lines 280-281
dedup_start == [seen |-> {}, unique_jobs |-> <<>>]

\* mutant: seen.add(key) forgotten
dedup_step_no_add(st, j) ==
    IF dedup_key(j) \notin st.seen
    THEN [seen |-> st.seen, unique_jobs |-> Append(st.unique_jobs, j)]
    ELSE st

\* lines 284-290: one turn of the for loop
dedup_step(st, j) ==
    IF dedup_key(j) \notin st.seen
    THEN [seen |-> st.seen \cup {dedup_key(j)}, unique_jobs |-> Append(st.unique_jobs, j)]
    ELSE st

RECURSIVE dedup_loop(_, _)
dedup_loop(jobs, st) ==
    IF jobs = <<>> THEN st ELSE dedup_loop(Tail(jobs), dedup_step(st, Head(jobs)))

deduplicate_jobs(jobs) == dedup_loop(jobs, dedup_start).unique_jobs

-----------------------------------------------------------------------------
(* Inputs *)

RawJob(title, dp, pd, dt, sa, usa, link, job_url, apply_url, raw, salary, src) ==
    [title |-> title, date_posted |-> dp, posted_date |-> pd, date |-> dt,
     scraped_at |-> sa, _scraped_at |-> usa, link |-> link, job_url |-> job_url,
     apply_url |-> apply_url, raw_content |-> raw, salary |-> salary, _source |-> src]

RawJobs ==
    { RawJob(<<"a">>, isoformat(3), <<>>, <<>>, <<>>, Stamp(3), "u1", "", "", <<>>,
             <<"NGN", " ", "100">>, "medlocum"),
      RawJob(<<"N", "/", "A">>, <<>>, <<"2", "nd", " ", "Jan", ",", " ", "2026">>, <<>>, <<>>,
             <<>>, "", "u2", "", <<"Contact", ":", " ", "[email", " ", "protected]">>,
             <<>>, Absent),
      RawJob(<<>>, <<>>, <<>>, <<>>, Stamp(3), <<>>, "", "", "u1", <<>>, <<>>, "feed"),
      RawJob(<<" ">>, <<>>, <<>>, <<>>, <<>>, Stamp(2), "", "", "", <<>>, <<>>, Absent),
      RawJob(<<"a">>, <<"soon">>, <<>>, <<>>, <<>>, <<>>, "", "", "", <<>>, <<>>,
             "medlocum") }

SeqsUpTo(S, n) == UNION { [1..k -> S] : k \in 0..n }

Canonical(title, company, url, dp, src) ==
    [job_title |-> title, company |-> company, apply_url |-> url,
     date_posted |-> dp, _source |-> src]

\* the fields of a record that the deduplication does not read
Details(deadline, job_category, salary, contact_email, how_to_apply) ==
    [deadline |-> deadline, job_category |-> job_category, salary |-> salary,
     contact_email |-> contact_email, how_to_apply |-> how_to_apply]

\* what the LLM may return for a job (before the overlay)
LLMOutputs ==
    { [job_title |-> <<"a">>, company |-> <<"c">>, apply_url |-> "", date_posted |-> <<>>]
        @@ Details(<<>>, "Other", <<>>, <<>>, NotAList),
      [job_title |-> <<"A", " ">>, company |-> <<"c">>, apply_url |-> "u2",
       date_posted |-> <<>>]
        @@ Details(<<"6", " ", "weeks">>, "Nurse", <<>>, <<"hr@x.org">>,
                   [list |-> TRUE, items |-> << Sentence(<<"Email", "hr@x.org">>) >>]),
      [job_title |-> <<"b">>, company |-> <<"c">>, apply_url |-> "",
       date_posted |-> isoformat(1)]
        @@ Details(<<"23", "rd", " ", "Jan", ",", " ", "2026">>, "", <<"NGN", " ", "200">>,
                   <<>>, [list |-> TRUE, items |-> <<>>]) }

\* a cache entry as an earlier run stores it: {"data": record}, under the record's apply_url
Entry(u) ==
    [data |-> Canonical(<<"b">>, <<"c">>, u, isoformat(2), "medlocum")
              @@ Details(isoformat(23), "Nurse", <<>>, <<>>, <<ClickApplyNow>>)]

NoCache == [u \in {} |-> Entry(u)]

CacheFiles ==
    { [valid |-> FALSE, data |-> NoCache],
      [valid |-> TRUE, data |-> [u \in {"u1"} |-> Entry(u)]],
      [valid |-> TRUE, data |-> [u \in {"u1", "u2"} |-> Entry(u)]] }

\* load_cache: {} when the file is missing or unreadable
load_cache(file) == IF file.valid THEN file.data ELSE NoCache

NoOutput == [written |-> FALSE]

\* arg and ret while no function is run alone
NoCall == [none |-> TRUE]

\* a dict with no key
NoKeys == [name \in {} |-> NoCall]

\* no scraper, run_scrapers or run_pipeline is running
NoScraping ==
    /\ page = 1
    /\ job_links = <<>>
    /\ link_i = 1
    /\ all_jobs = <<>>
    /\ selected = <<>>
    /\ sel_i = 1
    /\ results = NoKeys
    /\ jsonFiles = NoKeys
    /\ returncodes = NoKeys

-----------------------------------------------------------------------------
(* The extraction run: main() *)

Init ==
    /\ rawFile \in SeqsUpTo(RawJobs, MaxJobs)
    /\ cacheFile \in CacheFiles
    /\ outFile = NoOutput
    /\ max \in 0..MaxCap
    /\ max_age_days \in 0..MaxAge
    /\ pc = "start"
    /\ jobs_list = <<>>
    /\ i = 1
    /\ cache = NoCache
    /\ extracted = <<>>
    /\ processed = 0
    /\ skipped_date = 0
    /\ skipped_empty = 0
    /\ errors = 0
    /\ cache_hits = 0
    /\ deduped_count = 0
    /\ examined = {}
    /\ lookups = {}
    /\ llm_sent = <<>>
    /\ contributed = {}
    /\ cache_writes = 0
    /\ dd_in = <<>>
    /\ dd_jobs = <<>>
    /\ dd_pos = 1
    /\ dd_st = dedup_start
    /\ dd_kept = {}
    /\ dd_once = <<>>
    /\ arg = NoCall
    /\ ret = NoCall
    /\ io = <<>>
    /\ NoScraping

files == <<rawFile, cacheFile, outFile>>
args == <<max, max_age_days>>
counters == <<processed, skipped_date, skipped_empty, errors, cache_hits>>
calls == <<arg, ret, io>>
scraping == <<page, job_links, link_i, all_jobs, selected, sel_i, results, jsonFiles,
              returncodes>>
harness == <<dd_in, dd_jobs, dd_pos, dd_st, dd_kept, dd_once, calls, scraping>>

\* "if args.max and processed >= args.max: break"
cap_reached(p) == max # 0 /\ p >= max

\* the loop goes on to the next job ("continue", or the end of the body), or ends
Continue ==
    /\ i' = i + 1
    /\ pc' = IF i + 1 > Len(jobs_list) THEN "save" ELSE "loop"

\* "break"
Break ==
    /\ i' = i
    /\ pc' = "save"

\* the end of a loop body that added to processed or not: cap check, then sleep
EndOfBody(p) == IF cap_reached(p) THEN Break ELSE Continue

\* lines 294-375: read the input, load the cache, sort newest first
Start ==
    /\ pc = "start"
    /\ jobs_list' = sort_newest_first(rawFile)
    /\ cache' = load_cache(cacheFile)
    /\ pc' = IF Len(rawFile) = 0 THEN "save" ELSE "loop"
    /\ UNCHANGED <<files, args, i, extracted, counters, deduped_count, examined,
                   lookups, llm_sent, contributed, cache_writes, harness>>

job == jobs_list[i]
InLoop == pc = "loop" /\ i <= Len(jobs_list)

\* mutant: "<=" for "<"
too_old_inclusive(j) == LET old(d) == d # None /\ d <= cutoff IN old(pick_date(j))

\* "if d and d < cutoff"
too_old(j) == LET old(d) == d # None /\ d < cutoff IN old(pick_date(j))

\* mutant: only the job's link is looked up
cache_hit_link_only(j) ==
    /\ j.link # ""
    /\ j.link \in DOMAIN cache
    /\ "data" \in DOMAIN cache[j.link]

\* "if apply_url and apply_url in cache" and "isinstance(cached_data, dict)"
cache_hit(j) ==
    /\ apply_url_of(j) # ""
    /\ apply_url_of(j) \in DOMAIN cache
    /\ "data" \in DOMAIN cache[apply_url_of(j)]

\* lines 378-381
SkipOld ==
    /\ InLoop
    /\ too_old(job)
    /\ skipped_date' = skipped_date + 1
    /\ examined' = examined \cup {i}
    /\ Continue
    /\ UNCHANGED <<files, args, jobs_list, cache, extracted, processed, skipped_empty,
                   errors, cache_hits, deduped_count, lookups, llm_sent, contributed,
                   cache_writes, harness>>

\* mutant: the cached record is appended with its old source tag
hit_record_old_tag(j) == cache[apply_url_of(j)].data

\* lines 385-389: a copy of the cached data with the job's source tag
hit_record(j) == [cache[apply_url_of(j)].data EXCEPT !._source = source_of(j)]

\* mutant: the cache-hit branch has no cap check
CacheHit_no_break ==
    /\ InLoop
    /\ ~too_old(job)
    /\ cache_hit(job)
    /\ extracted' = Append(extracted, hit_record(job))
    /\ processed' = processed + 1
    /\ cache_hits' = cache_hits + 1
    /\ examined' = examined \cup {i}
    /\ lookups' = lookups \cup {i}
    /\ contributed' = contributed \cup {i}
    /\ Continue
    /\ UNCHANGED <<files, args, jobs_list, cache, skipped_date, skipped_empty, errors,
                   deduped_count, llm_sent, cache_writes, harness>>

\* lines 383-400
CacheHit ==
    /\ InLoop
    /\ ~too_old(job)
    /\ cache_hit(job)
    /\ extracted' = Append(extracted, hit_record(job))
    /\ processed' = processed + 1
    /\ cache_hits' = cache_hits + 1
    /\ examined' = examined \cup {i}
    /\ lookups' = lookups \cup {i}
    /\ contributed' = contributed \cup {i}
    /\ EndOfBody(processed + 1)
    /\ UNCHANGED <<files, args, jobs_list, cache, skipped_date, skipped_empty, errors,
                   deduped_count, llm_sent, cache_writes, harness>>

\* mutant: a job without text is skipped without being counted
SkipEmpty_uncounted ==
    /\ InLoop
    /\ ~too_old(job)
    /\ ~cache_hit(job)
    /\ build_text(job) = <<>>
    /\ examined' = examined \cup {i}
    /\ lookups' = lookups \cup (IF apply_url_of(job) # "" THEN {i} ELSE {})
    /\ Continue
    /\ UNCHANGED <<files, args, jobs_list, cache, extracted, counters, deduped_count,
                   llm_sent, contributed, cache_writes, harness>>

\* lines 383-384, 402-405
SkipEmpty ==
    /\ InLoop
    /\ ~too_old(job)
    /\ ~cache_hit(job)
    /\ build_text(job) = <<>>
    /\ skipped_empty' = skipped_empty + 1
    /\ examined' = examined \cup {i}
    /\ lookups' = lookups \cup (IF apply_url_of(job) # "" THEN {i} ELSE {})
    /\ Continue
    /\ UNCHANGED <<files, args, jobs_list, cache, extracted, processed, skipped_date,
                   errors, cache_hits, deduped_count, llm_sent, contributed,
                   cache_writes, harness>>

\* mutant: the empty-text check is missing
LLMRequest_unchecked ==
    /\ InLoop
    /\ ~too_old(job)
    /\ ~cache_hit(job)
    /\ llm_sent' = Append(llm_sent, i)
    /\ examined' = examined \cup {i}
    /\ lookups' = lookups \cup (IF apply_url_of(job) # "" THEN {i} ELSE {})
    /\ pc' = "llm"
    /\ UNCHANGED <<files, args, jobs_list, i, cache, extracted, counters, deduped_count,
                   contributed, cache_writes, harness>>

\* lines 383-384, 402-449: the request goes out
LLMRequest ==
    /\ InLoop
    /\ ~too_old(job)
    /\ ~cache_hit(job)
    /\ build_text(job) # <<>>
    /\ llm_sent' = Append(llm_sent, i)
    /\ examined' = examined \cup {i}
    /\ lookups' = lookups \cup (IF apply_url_of(job) # "" THEN {i} ELSE {})
    /\ pc' = "llm"
    /\ UNCHANGED <<files, args, jobs_list, i, cache, extracted, counters, deduped_count,
                   contributed, cache_writes, harness>>

\* mutant: a deadline that is no absolute date is left as the LLM gave it
\* "if date: field = date.isoformat()": the field's text after it
iso_or(d, text) == IF d # None THEN isoformat(d) ELSE text

\* "if value: field = value": the field's text after it
text_or(value, text) == IF value # "" THEN value ELSE text

\* mutant: no relative deadline is worked out
deadline_absolute_only(data, j, d) == iso_or(parse_date(data.deadline), data.deadline)

\* lines 456-465 once data["deadline"], job["_scraped_at"] and job["scraped_at"] have
\* gone through parse_date: the absolute date, else the relative one from the anchor
deadline_from(text, d, dates) ==
    iso_or(date_or(dates[1],
                   parse_relative_deadline(text, first_date(<<d, dates[2], dates[3]>>))),
           text)

\* lines 456-465: data["deadline"] after the overlay, d being pick_date(job)
deadline_of(data, j, d) ==
    deadline_from(data.deadline, d,
                  parse_dates(<<data.deadline, j._scraped_at, j.scraped_at>>))

\* mutant: the LLM's category is kept when it gave one
job_category_llm_first(data) ==
    text_or(data.job_category, classify_job_category(data.job_title))

\* lines 466-468: data["job_category"] after the overlay
job_category_of(data) ==
    text_or(classify_job_category(data.job_title), data.job_category)

\* lines 454-485 with d, the date that pick_date gave at line 378
post_process(data, j, d) ==
    LET url == IF data.apply_url # "" THEN data.apply_url ELSE apply_url_of(j)
        protected == has_protected_email(j.raw_content)
    IN  [job_title |-> data.job_title,
         company |-> data.company,
         date_posted |-> iso_or(d, data.date_posted),
         deadline |-> deadline_of(data, j, d),
         job_category |-> job_category_of(data),
         salary |-> IF data.salary = <<>> /\ j.salary # <<>> THEN j.salary ELSE data.salary,
         apply_url |-> url,
         contact_email |-> IF protected THEN <<>> ELSE data.contact_email,
         how_to_apply |-> normalize_how_to_apply(data.how_to_apply, j, url),
         _source |-> source_of(j)]

\* lines 454-485: the post-processing overlay
overlay(data, j) == post_process(data, j, pick_date(j))

\* the overlay of each response on each raw job, worked out once
overlays == [data \in LLMOutputs |-> [j \in RawJobs |-> overlay(data, j)]]

\* lines 489-490: cache[data["apply_url"]] = {"data": data}
cache_store(c, data) ==
    IF data.apply_url # ""
    THEN [u \in DOMAIN c \cup {data.apply_url} |->
            IF u = data.apply_url THEN [data |-> data] ELSE c[u]]
    ELSE c

\* mutant: the cache file is saved after every extracted job
LLMSuccess_saves_cache ==
    /\ pc = "llm"
    /\ \E resp \in LLMOutputs :
        LET keep(data) == /\ extracted' = Append(extracted, data)
                          /\ cache' = cache_store(cache, data)
                          /\ cacheFile' = [valid |-> TRUE, data |-> cache_store(cache, data)]
        IN  keep(overlays[resp][job])
    /\ processed' = processed + 1
    /\ contributed' = contributed \cup {i}
    /\ EndOfBody(processed + 1)
    /\ UNCHANGED <<rawFile, outFile, args, jobs_list, skipped_date, skipped_empty,
                   errors, cache_hits, deduped_count, examined, lookups, llm_sent,
                   cache_writes, harness>>

\* lines 451-504: the response arrives, parses and is post-processed
LLMSuccess ==
    /\ pc = "llm"
    /\ \E resp \in LLMOutputs :
        LET keep(data) == /\ extracted' = Append(extracted, data)
                          /\ cache' = cache_store(cache, data)
        IN  keep(overlays[resp][job])
    /\ processed' = processed + 1
    /\ contributed' = contributed \cup {i}
    /\ EndOfBody(processed + 1)
    /\ UNCHANGED <<files, args, jobs_list, skipped_date, skipped_empty, errors,
                   cache_hits, deduped_count, examined, lookups, llm_sent,
                   cache_writes, harness>>

\* mutant: the exception is counted but ends the run
LLMFailure_abort ==
    /\ pc = "llm"
    /\ errors' = errors + 1
    /\ pc' = "done"
    /\ UNCHANGED <<files, args, jobs_list, i, cache, extracted, processed, skipped_date,
                   skipped_empty, cache_hits, deduped_count, examined, lookups,
                   llm_sent, contributed, cache_writes, harness>>

\* lines 495-504: the call, the parsing or the post-processing raised
LLMFailure ==
    /\ pc = "llm"
    /\ errors' = errors + 1
    /\ EndOfBody(processed)
    /\ UNCHANGED <<files, args, jobs_list, cache, extracted, processed, skipped_date,
                   skipped_empty, cache_hits, deduped_count, examined, lookups,
                   llm_sent, contributed, cache_writes, harness>>

\* lines 506-516: deduplicate, then save the cache
SaveCache ==
    /\ pc = "save"
    /\ extracted' = deduplicate_jobs(extracted)
    /\ deduped_count' = Len(extracted) - Len(deduplicate_jobs(extracted))
    /\ cacheFile' = [valid |-> TRUE, data |-> cache]
    /\ cache_writes' = cache_writes + 1
    /\ pc' = "write"
    /\ UNCHANGED <<rawFile, outFile, args, jobs_list, i, cache, counters, examined,
                   lookups, llm_sent, contributed, harness>>

\* lines 518-532: write master_jobs.json
WriteOutput ==
    /\ pc = "write"
    /\ outFile' = [written |-> TRUE,
                   metadata |-> [total_processed |-> processed,
                                 duplicates_removed |-> deduped_count,
                                 skipped_old |-> skipped_date,
                                 skipped_empty |-> skipped_empty,
                                 errors |-> errors],
                   jobs |-> extracted]
    /\ pc' = "done"
    /\ UNCHANGED <<rawFile, cacheFile, args, jobs_list, i, cache, extracted, counters,
                   deduped_count, examined, lookups, llm_sent, contributed,
                   cache_writes, harness>>

Next ==
    \/ Start
    \/ SkipOld
    \/ CacheHit
    \/ SkipEmpty
    \/ LLMRequest
    \/ LLMSuccess
    \/ LLMFailure
    \/ SaveCache
    \/ WriteOutput

Spec == Init /\ [][Next]_vars

-----------------------------------------------------------------------------
(* deduplicate_jobs run alone, one turn of its loop per step, on a list of    *)
(* canonical records; a second pass runs on the result of the first.          *)

DedupJobs ==
    { Canonical(<<"a">>, <<"c">>, "u1", isoformat(1), "s1"),
      Canonical(<<"A">>, <<"c">>, "u2", isoformat(1), "s2"),
      Canonical(<<" ", "a">>, <<"c">>, "u1", isoformat(1), "s3"),
      Canonical(<<"a", "|", "c">>, <<"c">>, "u1", isoformat(1), "s4"),
      Canonical(<<"a">>, <<"c", "|", "c">>, "u1", isoformat(1), "s5"),
      Canonical(<<"b">>, <<"c">>, "u1", isoformat(1), "s6") }

InitDedup ==
    /\ dd_in \in SeqsUpTo(DedupJobs, MaxDedup)
    /\ dd_jobs = dd_in
    /\ dd_pos = 1
    /\ dd_st = dedup_start
    /\ dd_kept = {}
    /\ dd_once = <<>>
    /\ pc = "dd_first"
    /\ rawFile = <<>>
    /\ cacheFile = [valid |-> FALSE, data |-> NoCache]
    /\ outFile = NoOutput
    /\ max = 0
    /\ max_age_days = 0
    /\ jobs_list = <<>>
    /\ i = 1
    /\ cache = NoCache
    /\ extracted = <<>>
    /\ processed = 0
    /\ skipped_date = 0
    /\ skipped_empty = 0
    /\ errors = 0
    /\ cache_hits = 0
    /\ deduped_count = 0
    /\ examined = {}
    /\ lookups = {}
    /\ llm_sent = <<>>
    /\ contributed = {}
    /\ cache_writes = 0
    /\ arg = NoCall
    /\ ret = NoCall
    /\ io = <<>>
    /\ NoScraping

extraction == <<files, args, jobs_list, i, cache, extracted, counters, deduped_count,
                examined, lookups, llm_sent, contributed, cache_writes>>

\* lines 283-290: one job of the first pass
DedupStep ==
    /\ pc = "dd_first"
    /\ dd_pos <= Len(dd_jobs)
    /\ dd_st' = dedup_step(dd_st, dd_jobs[dd_pos])
    /\ dd_kept' = IF dedup_step(dd_st, dd_jobs[dd_pos]).unique_jobs # dd_st.unique_jobs
                  THEN dd_kept \cup {dd_pos} ELSE dd_kept
    /\ dd_pos' = dd_pos + 1
    /\ UNCHANGED <<extraction, calls, scraping, pc, dd_in, dd_jobs, dd_once>>

\* line 292 of the first pass; the second pass is called on its result
DedupReturn ==
    /\ pc = "dd_first"
    /\ dd_pos > Len(dd_jobs)
    /\ dd_once' = dd_st.unique_jobs
    /\ dd_jobs' = dd_st.unique_jobs
    /\ dd_pos' = 1
    /\ dd_st' = dedup_start
    /\ pc' = "dd_second"
    /\ UNCHANGED <<extraction, calls, scraping, dd_in, dd_kept>>

\* lines 283-290: one job of the second pass
DedupAgainStep ==
    /\ pc = "dd_second"
    /\ dd_pos <= Len(dd_jobs)
    /\ dd_st' = dedup_step(dd_st, dd_jobs[dd_pos])
    /\ dd_pos' = dd_pos + 1
    /\ UNCHANGED <<extraction, calls, scraping, pc, dd_in, dd_jobs, dd_kept, dd_once>>

\* line 292 of the second pass
DedupAgainReturn ==
    /\ pc = "dd_second"
    /\ dd_pos > Len(dd_jobs)
    /\ pc' = "dd_done"
    /\ UNCHANGED <<extraction, calls, scraping, dd_in, dd_jobs, dd_pos, dd_st, dd_kept, dd_once>>

NextDedup ==
    \/ DedupStep
    \/ DedupReturn
    \/ DedupAgainStep
    \/ DedupAgainReturn

SpecDedup == InitDedup /\ [][NextDedup]_vars

-----------------------------------------------------------------------------
(* A function run alone: arg holds its arguments, ret what it returned; the   *)
(* extraction run and the deduplication harness stay idle.                    *)

Idle ==
    /\ io = <<>>
    /\ NoScraping
    /\ rawFile = <<>>
    /\ cacheFile = [valid |-> FALSE, data |-> NoCache]
    /\ outFile = NoOutput
    /\ max = 0
    /\ max_age_days = 0
    /\ jobs_list = <<>>
    /\ i = 1
    /\ cache = NoCache
    /\ extracted = <<>>
    /\ processed = 0
    /\ skipped_date = 0
    /\ skipped_empty = 0
    /\ errors = 0
    /\ cache_hits = 0
    /\ deduped_count = 0
    /\ examined = {}
    /\ lookups = {}
    /\ llm_sent = <<>>
    /\ contributed = {}
    /\ cache_writes = 0
    /\ dd_in = <<>>
    /\ dd_jobs = <<>>
    /\ dd_pos = 1
    /\ dd_st = dedup_start
    /\ dd_kept = {}
    /\ dd_once = <<>>

no_extraction == <<extraction, dd_in, dd_jobs, dd_pos, dd_st, dd_kept, dd_once>>
idle == <<no_extraction, scraping>>

-----------------------------------------------------------------------------
(* normalize_how_to_apply run alone *)

\* raw_content: what stands before the application section, the heading of the
\* section, the instruction and the subject line, in every combination
RawContents ==
    LET starts ==
            { <<>>,
              Sentence(<<"Apply", "online">>) \o <<".", " ">>,
              <<"Contact", ":", " ", "[email", " ", "protected]", " ">> }
        headings ==
            { <<>>,
              <<"How", " ", "to", " ", "Apply", ":", " ">>,
              <<"Application", " ", "Method", ":", " ", " ">> }
        instructions ==
            { Sentence(<<"call", "us">>),
              Sentence(<<"send", "an", "Email">>),
              Sentence(<<"use", "the", "career", "portal">>),
              Sentence(<<"visit", "https://x.org/job">>),
              <<"write", " ", "to", " ", "(", "hr@x.org", ")">>,
              Sentence(<<"E-mail", "HR@X.ORG", "or", "see", "www">>)
                  \o <<".", "x", ".", "org">>,
              <<"Email", " ", "[email", " ", "protected]">> }
        subjects ==
            { <<>>,
              <<".", " ", "Subject", ":", " ", "Staff", " ", "Nurse", ".", " ", "Thanks">>,
              <<" ", "-", " ", "subject", " ", "-", "http", " ", "developer">>,
              <<" ", "Subject", ":", "HTTP://X/JOBS", " ", "Nurse">>,
              <<" ", "Subject", ":", " ", "Nurse", " ", "Www">>,
              <<" ", "Subject", ":", " ", "hr@x.org", " ", "https://x.org/job", " ",
                "Nurse">>,
              <<" ", "Subject", ":", " ", ".">>,
              <<" ", "Subject", ":", " ">> \o see_original_listing,
              <<" ">> \o with_the_subject \o <<" ", "Staff", " ", "Nurse", ".">>,
              <<" ">> \o using_the_job_title }
    IN  { a \o b \o c \o d : a \in starts, b \in headings,
                              c \in instructions, d \in subjects }
        \cup {<<>>}

ModelLists ==
    { NotAList,
      [list |-> TRUE, items |-> <<>>],
      [list |-> TRUE, items |-> << Sentence(<<"Email", "hr@x.org">>), <<"x.org">> >>],
      [list |-> TRUE, items |-> << <<"[email", " ", "protected]">> >>],
      [list |-> TRUE, items |-> << Sentence(<<"Apply", "online", "at", "www.x.org">>) >>] }

ApplyUrls ==
    {"", "u1", "https://acme.myworkdayjobs.com/job/7", "https://clinic.org/Apply/12"}

HowToApplyCalls ==
    [fn : {"normalize_how_to_apply"}, model_list : ModelLists,
     raw_job : [raw_content : RawContents], apply_url : ApplyUrls]

NormalizeHowToApply ==
    /\ pc = "call"
    /\ arg.fn = "normalize_how_to_apply"
    /\ ret' = normalize_how_to_apply(arg.model_list, arg.raw_job, arg.apply_url)
    /\ pc' = "returned"
    /\ UNCHANGED <<idle, arg, io>>

-----------------------------------------------------------------------------
(* parse_date and parse_relative_deadline run alone.  Each call carries, next *)
(* to the string, what the string was written from: the date and the marks    *)
(* added to it, or the amount and the unit.                                   *)

MaxAmount == 6      \* largest amount of a relative deadline

\* a date written in a format of DATE_FORMATS, day and month with or without a
\* leading zero
Written(fmt, y, m, d, padded) ==
    [k \in 1..Len(fmt) |->
        IF fmt[k] = "%d" THEN (IF padded THEN Pad2[d] ELSE ToString(d))
        ELSE IF fmt[k] = "%m" THEN (IF padded THEN Pad2[m] ELSE ToString(m))
        ELSE IF fmt[k] = "%Y" THEN ToString(y)
        ELSE IF fmt[k] = "%b" THEN <<"Jan", "Feb">>[m]
        ELSE IF fmt[k] = "%B" THEN <<"January", "February">>[m]
        ELSE IF fmt[k] = "%a" THEN "Fri"
        ELSE IF fmt[k] = "%A" THEN "Friday"
        ELSE fmt[k]]

\* s with an ordinal suffix after the day number (at position day), a comma at
\* one place (not between the day and its suffix) and a trailing period; "" and
\* a place < 0 add nothing
Decorated(s, day, suffix, comma, period) ==
    LET a == IF suffix = "" THEN s
             ELSE SubSeq(s, 1, day) \o <<suffix>> \o SubSeq(s, day + 1, Len(s))
        at == IF suffix # "" /\ comma >= day THEN comma + 1 ELSE comma
        b == IF comma < 0 THEN a
             ELSE SubSeq(a, 1, at) \o <<",">> \o SubSeq(a, at + 1, Len(a))
    IN  IF period THEN b \o <<".">> ELSE b

DateCalls ==
    LET days == {<<2026, 1, 1>>, <<2026, 1, 23>>, <<2026, 2, 28>>, <<2027, 1, 3>>}
        bases ==
            { [s |-> Written(DATE_FORMATS[f], x[1], x[2], x[3], p),
               day |-> CHOOSE k \in 1..5 : DATE_FORMATS[f][k] = "%d",
               date |-> date(x[1], x[2], x[3]), kind |-> "listed"] :
              f \in 1..Len(DATE_FORMATS), x \in days, p \in BOOLEAN }
            \cup
            { [s |-> isoformat(date(x[1], x[2], x[3])) \o <<sep, time>>,
               day |-> 5,
               date |-> IF sep = "T" \/ time \in TimesOfDay
                        THEN date(x[1], x[2], x[3]) ELSE None,
               kind |-> IF sep = "T" THEN "iso T"
                        ELSE IF time \in TimesOfDay THEN "iso" ELSE "none"] :
              x \in days, sep \in {"T", " "}, time \in {"10:30:00", "99:99"} }
        others ==
            { <<>>, <<" ">>, <<"soon">>, <<"TBD">>,
              <<"Jan", " ", "27", ",", " ", "2026">>,
              <<"27", "/", "01", "/", "2026">>,
              <<"2026", "/", "01", "/", "27">>,
              <<"31", "-", "02", "-", "2026">>,
              <<"27", " ", "Fri", " ", "2026">> }
    IN  { [fn |-> "parse_date", s |-> Decorated(b.s, b.day, suffix, comma, period),
           date |-> b.date, kind |-> b.kind,
           added |-> [suffix |-> suffix, comma |-> comma >= 0, period |-> period]] :
          b \in bases, suffix \in {"", "st", "th", "TH"}, comma \in {0 - 1, 0, 1, 3, 5},
          period \in BOOLEAN }
        \cup
        { [fn |-> "parse_date", s |-> s, date |-> None, kind |-> "none",
           added |-> [suffix |-> "", comma |-> FALSE, period |-> FALSE]] :
          s \in others }

DeadlineCalls ==
    LET word(n) == CHOOSE w \in DOMAIN NUMBER_WORDS : NUMBER_WORDS[w] = n
        amounts(n) ==
            { <<ToString(n)>>, <<"(", ToString(n), ")">>, <<ToString(n), " ", ToString(n)>> }
            \cup (IF n > 0
                  THEN { <<word(n)>>, <<word(n), " ", "(", ToString(n), ")">> }
                  ELSE {})
        pairs ==
            { [text |-> before \o a \o <<" ", u>> \o after, amount |-> n, unit |-> u,
               pair |-> TRUE] :
              n \in {0, 1, MaxAmount}, a \in UNION { amounts(m) : m \in {0, 1, MaxAmount} },
              u \in {"day", "weeks", "months"},
              before \in {<<>>, <<"Within", " ">>},
              after \in {<<>>, <<" ", "from", " ", "posting", ".">>,
                         <<",", " ", "or", " ", "3", " ", "days">>} }
        written == { c \in pairs : \E a \in amounts(c.amount) : Has(c.text, a \o <<" ", c.unit>>) }
        none ==
            { [text |-> t, amount |-> 0, unit |-> "day", pair |-> FALSE] :
              t \in { <<>>, <<"soon">>, <<"6">>, <<"weeks">>,
                      <<"6", " ", "applicants">>, <<"week", " ", "6">> } }
    IN  { [fn |-> "parse_relative_deadline", text |-> c.text, anchor_date |-> a,
           amount |-> c.amount, unit |-> c.unit, pair |-> c.pair] :
          c \in written \cup none, a \in {None, 1, 3} }

ParseDate ==
    /\ pc = "call"
    /\ arg.fn = "parse_date"
    /\ ret' = parse_date(arg.s)
    /\ pc' = "returned"
    /\ UNCHANGED <<idle, arg, io>>

ParseRelativeDeadline ==
    /\ pc = "call"
    /\ arg.fn = "parse_relative_deadline"
    /\ ret' = parse_relative_deadline(arg.text, arg.anchor_date)
    /\ pc' = "returned"
    /\ UNCHANGED <<idle, arg, io>>

\* titles: one or two phrases, with or without a space after them, and the
\* titles the spec names
Titles ==
    LET parts ==
            { <<"Dental">>, <<"Medical", " ", "Laboratory">>, <<"Laboratory">>,
              <<"Scientist">>, <<"Pharmacy">>, <<"Midwifery">>, <<"Nurse">>,
              <<"Medical", " ", "Officers">>, <<"Doctor">>, <<"Public", " ", "Health">>,
              <<"Project", " ", "Officer">>, <<"Manager">>, <<"Inventory">>, <<"HSE">>,
              <<"Physiotherapist">>, <<"Senior">>, <<"Officer">>, <<"Medical">>,
              <<"Driver">> }
        plain == parts \cup { a \o <<" ">> \o b : a, b \in parts }
    IN  plain \cup { t \o <<" ">> : t \in plain }
        \cup { <<>>, <<" ">>, Sentence(<<"Senior", "Medical", "Officer">>),
               Sentence(<<" ", "Staff", "Nurse">>) }

TitleCalls == [fn : {"classify_job_category"}, title : Titles]

ClassifyJobCategory ==
    /\ pc = "call"
    /\ arg.fn = "classify_job_category"
    /\ ret' = classify_job_category(arg.title)
    /\ pc' = "returned"
    /\ UNCHANGED <<idle, arg, io>>

\* the overlay run alone: a response and a raw job, and what they were written
\* from (the label of the title, the date or the days of the deadline, the
\* posting date and the scrape dates of the job)
OverlayCalls ==
    LET titles ==
            { [text |-> <<>>, label |-> ""],
              [text |-> <<"Driver">>, label |-> ""],
              [text |-> Sentence(<<"Staff", "Nurse">>), label |-> "Nurse"],
              [text |-> Sentence(<<"Inventory", "Manager">>),
               label |-> "Healthcare Management"] }
        deadlines ==
            { [text |-> <<>>, kind |-> "neither", n |-> 0],
              [text |-> <<"soon">>, kind |-> "neither", n |-> 0],
              [text |-> <<"0", " ", "days">>, kind |-> "neither", n |-> 0],
              [text |-> <<"23", "rd", " ", "Jan", ",", " ", "2026">>,
               kind |-> "absolute", n |-> 23],
              [text |-> <<"2026", "-", "02", "-", "28">>, kind |-> "absolute", n |-> 59],
              [text |-> <<"6", " ", "weeks">>, kind |-> "relative", n |-> 42],
              [text |-> <<"Within", " ", "six", " ", "(", "6", ")", " ", "days", ".">>,
               kind |-> "relative", n |-> 6] }
        rest ==
            { Details(<<>>, "", <<>>, <<>>, NotAList) @@ [apply_url |-> ""],
              Details(<<>>, "", <<"NGN", " ", "200">>, <<"hr@x.org">>,
                      [list |-> TRUE, items |-> << Sentence(<<"Email", "hr@x.org">>) >>])
                  @@ [apply_url |-> ""],
              Details(<<>>, "", <<>>, <<"hr@x.org">>, [list |-> TRUE, items |-> <<>>])
                  @@ [apply_url |-> "https://clinic.org/Apply/12"] }
        posted == { [text |-> <<>>, day |-> None], [text |-> <<"soon">>, day |-> None],
                    [text |-> isoformat(3), day |-> 3] }
        contents ==
            { [raw_content |-> <<>>, salary |-> <<>>, link |-> ""],
              [raw_content |-> <<"Contact", ":", " ", "[email", " ", "protected]">>,
               salary |-> <<"NGN", " ", "100">>, link |-> "u1"],
              [raw_content |-> <<"How", " ", "to", " ", "Apply", ":", " ">>
                               \o Sentence(<<"send", "an", "Email">>),
               salary |-> <<"NGN", " ", "100">>, link |-> ""] }
    IN  { [fn |-> "overlay",
           data |-> [r EXCEPT !.deadline = dl.text, !.job_category = category]
                    @@ [job_title |-> t.text, company |-> <<"c">>, date_posted |-> <<>>],
           job |-> RawJob(t.text, p.text, <<>>, <<>>,
                          IF 1 \in scraped THEN Stamp(1) ELSE <<>>,
                          IF 2 \in scraped THEN Stamp(2) ELSE <<>>,
                          c.link, "", "", c.raw_content, c.salary, Absent),
           label |-> t.label, deadline |-> dl, posted |-> p.day, scraped |-> scraped] :
          t \in titles, dl \in deadlines, category \in {"", "Nurse", "Other"}, r \in rest,
          p \in posted, scraped \in SUBSET {1, 2}, c \in contents }

\* lines 454-485, the response being parsed
Overlay ==
    /\ pc = "call"
    /\ arg.fn = "overlay"
    /\ ret' = overlay(arg.data, arg.job)
    /\ pc' = "returned"
    /\ UNCHANGED <<idle, arg, io>>

InitCalls ==
    /\ Idle
    /\ pc = "call"
    /\ arg \in HowToApplyCalls \cup DateCalls \cup DeadlineCalls \cup TitleCalls
              \cup OverlayCalls
    /\ ret = NoCall

NextCalls ==
    \/ NormalizeHowToApply
    \/ ParseDate
    \/ ParseRelativeDeadline
    \/ ClassifyJobCategory
    \/ Overlay

SpecCalls == InitCalls /\ [][NextCalls]_vars

-----------------------------------------------------------------------------
(* The entry points: the start of extract.main, and newsletter.main with      *)
(* send_campaign.  arg holds the environment after load_dotenv() and the      *)
(* files the process finds, io what it has read, written and requested, ret   *)
(* its exit code.                                                             *)

\* os.getenv(name) is Absent (None) when the variable is not set
Missing(v) == v \in {Absent, ""}

\* int(os.getenv("BREVO_LIST_ID", "0")): the number, or ValueError
BadNumber == 0 - 1
list_id_of(v) ==
    IF v \in {Absent, "0"} THEN 0
    ELSE IF v \in Numbers THEN int[v]
    ELSE BadNumber

\* os.getenv("NEWSLETTER_DRY_RUN", "").lower() == "true"
dry_run(v) == v \in {"true", "True", "TRUE"}

Event(op, what) == [op |-> op, what |-> what]

\* an input file that does not exist, and the input files that do, by the number
\* of jobs they hold
NoFile == [exists |-> FALSE, jobs |-> 0]
InputFiles == {NoFile} \cup { [exists |-> TRUE, jobs |-> n] : n \in 0..MaxJobs }

EntryCalls ==
    [entry : {"extract"}, OPENAI_API_KEY : {Absent, "", "sk-1"}, raw_jobs : InputFiles]
    \cup
    [entry : {"newsletter"},
     BREVO_API_KEY : {Absent, "", "key"},
     BREVO_LIST_ID : {Absent, "", "0", "7", "abc"},
     NEWSLETTER_DRY_RUN : {Absent, "true", "True", "false"},
     master_jobs : InputFiles]

InitEntry ==
    /\ Idle
    /\ pc = "main"
    /\ arg \in EntryCalls
    /\ ret = NoCall

Exit(code) == ret' = code /\ pc' = "exited"

\* extract.py, lines 294-300
ExtractCheckKey ==
    /\ pc = "main"
    /\ arg.entry = "extract"
    /\ IF Missing(arg.OPENAI_API_KEY)
       THEN Exit(1)
       ELSE pc' = "args" /\ ret' = ret
    /\ UNCHANGED <<idle, arg, io>>

\* extract.py, lines 302-361: the run goes on (as Start), reading its inputs;
\* iter_jobs (225-246) opens raw_jobs.json when it exists and yields nothing
\* when it does not
ExtractReadInputs ==
    /\ pc = "args"
    /\ io' = (IF arg.raw_jobs.exists THEN <<Event("read", "json/raw_jobs.json")>>
              ELSE <<>>)
             \o <<Event("read", "docs/extraction_cache.json")>>
    /\ pc' = "run"
    /\ UNCHANGED <<idle, arg, ret>>

\* extract.py, lines 363-545: the loop over the jobs read (an exception of a
\* job is caught in it), then the cache and the output are written and main
\* returns
ExtractRun ==
    /\ pc = "run"
    /\ io' = io \o << Event("write", "docs/extraction_cache.json"),
                      Event("write", "docs/master_jobs.json") >>
    /\ Exit(0)
    /\ UNCHANGED <<idle, arg>>

\* newsletter.py, lines 259-270, with load_jobs (15-30)
NewsletterLoadJobs ==
    /\ pc = "main"
    /\ arg.entry = "newsletter"
    /\ IF ~arg.master_jobs.exists
       THEN Exit(1) /\ io' = io
       ELSE /\ io' = Append(io, Event("read", "docs/master_jobs.json"))
            /\ IF arg.master_jobs.jobs = 0 THEN Exit(0) ELSE pc' = "preview" /\ ret' = ret
    /\ UNCHANGED <<idle, arg>>

\* newsletter.py, lines 272-283
NewsletterPreview ==
    /\ pc = "preview"
    /\ io' = Append(io, Event("write", "docs/newsletter_preview.html"))
    /\ IF dry_run(arg.NEWSLETTER_DRY_RUN) THEN Exit(0) ELSE pc' = "send" /\ ret' = ret
    /\ UNCHANGED <<idle, arg>>

\* newsletter.py, lines 285-286 and 192-203; a failure (or the ValueError of
\* int) ends the process with code 1 (lines 292-297)
SendCampaignChecks ==
    /\ pc = "send"
    /\ IF \/ list_id_of(arg.BREVO_LIST_ID) = BadNumber
          \/ Missing(arg.BREVO_API_KEY)
          \/ list_id_of(arg.BREVO_LIST_ID) = 0
       THEN Exit(1)
       ELSE pc' = "create" /\ ret' = ret
    /\ UNCHANGED <<idle, arg, io>>

\* a request and what came back: a status code, or RequestException
Request(what, status_code) == <<Event("post", what), Event("response", status_code)>>

\* mutant: the send-now request follows whatever the create request returned
CreateCampaign_sends_anyway ==
    /\ pc = "create"
    /\ \E status_code \in {"201", "400", "RequestException"} :
        io' = io \o Request("emailCampaigns", status_code)
    /\ pc' = "send_now"
    /\ UNCHANGED <<idle, arg, ret>>

\* newsletter.py, lines 232-238 and 250-256: the create request
CreateCampaign ==
    /\ pc = "create"
    /\ \E status_code \in {"201", "400", "RequestException"} :
        /\ io' = io \o Request("emailCampaigns", status_code)
        /\ IF status_code = "201" THEN pc' = "send_now" /\ ret' = ret ELSE Exit(1)
    /\ UNCHANGED <<idle, arg>>

\* newsletter.py, lines 240-248 and 254-256: the send-now request; main exits
\* with code 1 when send_campaign returned False (287-297)
SendNow ==
    /\ pc = "send_now"
    /\ \E status_code \in {"204", "500", "RequestException"} :
        /\ io' = io \o Request("emailCampaigns/sendNow", status_code)
        /\ IF status_code = "204" THEN Exit(0) ELSE Exit(1)
    /\ UNCHANGED <<idle, arg>>

NextEntry ==
    \/ ExtractCheckKey
    \/ ExtractReadInputs
    \/ ExtractRun
    \/ NewsletterLoadJobs
    \/ NewsletterPreview
    \/ SendCampaignChecks
    \/ CreateCampaign
    \/ SendNow

SpecEntry == InitEntry /\ [][NextEntry]_vars

-----------------------------------------------------------------------------
(* The scrapers: run() of MedLocumScraper and of JobsInNigeriaScraper, one    *)
(* request per step.  The site answers each request as it likes; io holds the *)
(* requests, their answers and the sleeps, in order.                          *)

\* src/config.py, lines 14-31
SCRAPER_CONFIG ==
    [medlocum |-> [enabled |-> TRUE, rate_limit |-> 1, max_pages |-> 4],
     jobsinnigeria |-> [enabled |-> TRUE, rate_limit |-> 2, max_pages |-> 4],
     medicalworldnigeria |-> [enabled |-> TRUE, rate_limit |-> 2, max_pages |-> 2]]

\* the entries of io of a scraper: a request for a listing page or for the page
\* of a job, what get_page returned for it, and a sleep
Get(what, n) == [op |-> "get", what |-> what, n |-> n]
Got(what, n) == [op |-> "got", what |-> what, n |-> n]
Sleep(seconds) == [op |-> "sleep", what |-> "time.sleep", n |-> seconds]

\* what get_page gives for a listing page: None (an error or a status other than
\* 200), or a page with so many jobs on it, the last page of the site or not
ListingPages ==
    {[fetched |-> FALSE, jobs |-> 0, last |-> FALSE]}
    \cup [fetched : {TRUE}, jobs : 0..MaxPerPage, last : BOOLEAN]

\* the jobs of a listing page, each known by its page and its place on it
JobsOn(p, r) == [k \in 1..r.jobs |-> [page |-> p, place |-> k]]

\* what io gets for a request and its answer
Fetch(what, n, fetched, jobs) ==
    <<Get(what, n), Got(IF fetched THEN "page" ELSE "None", jobs)>>

ScraperRuns == [scraper : {"medlocum", "jobsinnigeria"}]

InitScrape ==
    /\ Idle
    /\ pc = "run"
    /\ arg \in ScraperRuns
    /\ ret = NoCall

\* the scraper's run() returns the jobs
ReturnJobs(jobs) == pc' = "returned" /\ ret' = jobs

\* medlocum.py, lines 33-76: one turn of the loop of fetch_all_pages; when the
\* loop ends, run (166-179) returns the jobs collected
MedLocumFetchPage ==
    /\ pc = "run"
    /\ arg.scraper = "medlocum"
    /\ IF page > SCRAPER_CONFIG.medlocum.max_pages
       THEN /\ ReturnJobs(all_jobs)
            /\ UNCHANGED <<io, page, all_jobs>>
       ELSE \E r \in ListingPages :
            /\ io' = io \o Fetch("listing", page, r.fetched, r.jobs)
            /\ all_jobs' = all_jobs \o JobsOn(page, r)
            /\ IF ~r.fetched \/ r.jobs = 0 \/ r.last
               THEN ReturnJobs(all_jobs \o JobsOn(page, r)) /\ page' = page
               ELSE page' = page + 1 /\ UNCHANGED <<pc, ret>>
    /\ UNCHANGED <<no_extraction, arg, job_links, link_i, selected, sel_i, results,
                   jsonFiles, returncodes>>

\* jobsinnigeria.py, lines 236-252: one turn of the loop over the listing pages
JobsInNigeriaListing ==
    /\ pc = "run"
    /\ arg.scraper = "jobsinnigeria"
    /\ \E r \in { x \in ListingPages : ~x.last } :
        LET more == r.jobs > 0 /\ page < SCRAPER_CONFIG.jobsinnigeria.max_pages
        IN  /\ io' = io \o Fetch("listing", page, r.fetched, r.jobs)
                       \o (IF more THEN <<Sleep(SCRAPER_CONFIG.jobsinnigeria.rate_limit)>>
                           ELSE <<>>)
            /\ job_links' = job_links \o JobsOn(page, r)
            /\ IF more THEN page' = page + 1 /\ UNCHANGED <<pc, ret>>
               ELSE /\ page' = page
                    /\ IF job_links \o JobsOn(page, r) = <<>>
                       THEN ReturnJobs(<<>>)
                       ELSE pc' = "details" /\ ret' = ret
    /\ UNCHANGED <<no_extraction, arg, link_i, all_jobs, selected, sel_i, results,
                   jsonFiles, returncodes>>

\* a job of the run: its listing entry, with the details of its page or without
FullJob(link, details) == [link |-> link, details |-> details]

\* jobsinnigeria.py, lines 255-289: one turn of the loop over job_links
JobsInNigeriaDetails ==
    /\ pc = "details"
    /\ \E fetched \in BOOLEAN :
        LET more == link_i < Len(job_links)
            jobs == Append(all_jobs, FullJob(job_links[link_i], fetched))
        IN  /\ io' = io \o Fetch("job", link_i, fetched, 1)
                       \o (IF more THEN <<Sleep(SCRAPER_CONFIG.jobsinnigeria.rate_limit)>>
                           ELSE <<>>)
            /\ all_jobs' = jobs
            /\ IF more THEN link_i' = link_i + 1 /\ UNCHANGED <<pc, ret>>
               ELSE link_i' = link_i /\ ReturnJobs(jobs)
    /\ UNCHANGED <<no_extraction, arg, page, job_links, selected, sel_i, results,
                   jsonFiles, returncodes>>

NextScrape ==
    \/ MedLocumFetchPage
    \/ JobsInNigeriaListing
    \/ JobsInNigeriaDetails

SpecScrape == InitScrape /\ [][NextScrape]_vars

-----------------------------------------------------------------------------
(* The pipeline: run_pipeline.py starts main.py and then extract.py, each as   *)
(* a subprocess; main.py can also be started alone, with scraper names as its  *)
(* arguments.  io holds the programs started, the scrapers run and the files   *)
(* written and read, in order; jsonFiles holds the files the run has written   *)
(* into json/, returncodes the exit code of each subprocess that has ended,    *)
(* ret the exit code of the process started first.                             *)

\* main.py, lines 12-16
SCRAPERS == {"medlocum", "jobsinnigeria", "medicalworldnigeria"}

\* the order of the scrapers in SCRAPER_CONFIG (config.py, lines 14-31)
ConfigOrder == <<"medlocum", "jobsinnigeria", "medicalworldnigeria">>

\* the entries of io of a pipeline run
Did(op, what, jobs) == [op |-> op, what |-> what, jobs |-> jobs]

\* the jobs a scraper returns, each known by its source and its place
JobsOf(name, n) == [k \in 1..n |-> [source |-> name, place |-> k]]

\* what json.dump writes into a snapshot file (main.py, lines 60-67)
output_data(sources, jobs) ==
    [sources |-> sources, total_jobs |-> Len(jobs), jobs |-> jobs]

\* json/ before the run: empty, or with a raw_jobs.json from some earlier time
EarlierFiles ==
    {NoKeys, [name \in {"raw_jobs.json"} |-> output_data(NoKeys, JobsOf("earlier", 1))]}

\* the scraper names given on the command line of main.py
Selections ==
    UNION { [1..n -> SCRAPERS \cup {"other"}] : n \in 0..MaxSelected }

\* a run: the program started, its arguments, the enabled flags of config.py
\* (all True as shipped), the environment and json/
PipelineRuns ==
    [entry : {"run_pipeline"}, scrapers : {<<>>}, enabled : [SCRAPERS -> BOOLEAN],
     OPENAI_API_KEY : {Absent, "sk-1"}, json : EarlierFiles]
    \cup
    [entry : {"main"}, scrapers : Selections, enabled : [SCRAPERS -> BOOLEAN],
     OPENAI_API_KEY : {Absent}, json : {NoKeys}]

InitPipeline ==
    /\ Idle
    /\ arg \in PipelineRuns
    /\ pc = arg.entry
    /\ ret = NoCall

\* f with each of the keys given bound to v
Bind(f, keys, v) ==
    [k \in DOMAIN f \cup keys |-> IF k \in keys THEN v ELSE f[k]]

\* the names of s for which keep holds, in the order of s
RECURSIVE Kept(_, _)
Kept(s, keep) ==
    IF s = <<>> THEN <<>>
    ELSE (IF Head(s) \in keep THEN <<Head(s)>> ELSE <<>>) \o Kept(Tail(s), keep)

\* run_pipeline.py, lines 15-17: the scrape step starts main.py, no arguments
PipelineScrape ==
    /\ pc = "run_pipeline"
    /\ io' = Append(io, Did("run", "main.py", <<>>))
    /\ pc' = "main"
    /\ UNCHANGED <<no_extraction, arg, ret, scraping>>

\* json/ as a process of the run finds it: the files from before the run, and
\* the files the run has written
json_dir ==
    [name \in DOMAIN arg.json \cup DOMAIN jsonFiles |->
        IF name \in DOMAIN jsonFiles THEN jsonFiles[name] ELSE arg.json[name]]

\* main.py, lines 87-92 and 21-25: the names selected, or the enabled ones
MainStart ==
    /\ pc = "main"
    /\ selected' = IF arg.scrapers # <<>> THEN arg.scrapers
                   ELSE Kept(ConfigOrder, { name \in SCRAPERS : arg.enabled[name] })
    /\ pc' = "scrapers"
    /\ UNCHANGED <<no_extraction, arg, ret, io, page, job_links, link_i, all_jobs,
                   sel_i, results, jsonFiles, returncodes>>

\* main.py, lines 32-54: one turn of the loop over the names selected
RunScraper ==
    /\ pc = "scrapers"
    /\ sel_i <= Len(selected)
    /\ LET name == selected[sel_i]
       IN  IF name \notin SCRAPERS \/ ~arg.enabled[name]
           THEN UNCHANGED <<io, all_jobs, results>>
           ELSE \/ \E n \in 0..MaxPerPage :
                    /\ io' = Append(io, Did("returned", name, JobsOf(name, n)))
                    /\ all_jobs' = all_jobs \o JobsOf(name, n)
                    /\ results' = Bind(results, {name}, [status |-> "success", count |-> n])
                \/ /\ io' = Append(io, Did("raised", name, <<>>))
                   /\ all_jobs' = all_jobs
                   /\ results' = Bind(results, {name}, [status |-> "error", error |-> "str(e)"])
    /\ sel_i' = sel_i + 1
    /\ UNCHANGED <<no_extraction, arg, pc, ret, page, job_links, link_i, selected,
                   jsonFiles, returncodes>>

\* main.py, lines 56-84: the snapshot is written under two names
SaveSnapshot ==
    /\ pc = "scrapers"
    /\ sel_i > Len(selected)
    /\ jsonFiles' = Bind(jsonFiles, {"all_raw_jobs_timestamp.json", "latest_raw_jobs.json"},
                         output_data(results, all_jobs))
    /\ io' = io \o << Did("write", "all_raw_jobs_timestamp.json", all_jobs),
                      Did("write", "latest_raw_jobs.json", all_jobs) >>
    /\ pc' = "saved"
    /\ UNCHANGED <<no_extraction, arg, ret, page, job_links, link_i, all_jobs, selected,
                   sel_i, results, returncodes>>

\* the exit code of main.py (lines 94-95)
main_returncode(sources) ==
    IF \E name \in DOMAIN sources : sources[name].status = "error" THEN 1 ELSE 0

\* main.py, lines 94-95: main.py ends; started alone, the run is over
MainExit ==
    /\ pc = "saved"
    /\ returncodes' = Bind(returncodes, {"main.py"}, main_returncode(results))
    /\ IF arg.entry = "main" THEN Exit(main_returncode(results))
       ELSE pc' = "scraped" /\ ret' = ret
    /\ UNCHANGED <<no_extraction, arg, io, page, job_links, link_i, all_jobs, selected,
                   sel_i, results, jsonFiles>>

\* mutant: the extraction step starts whatever the scrape step returned
PipelineExtract_always ==
    /\ pc = "scraped"
    /\ io' = Append(io, Did("run", "extract.py", <<>>))
    /\ pc' = "extract"
    /\ ret' = ret
    /\ UNCHANGED <<no_extraction, arg, scraping>>

\* run_pipeline.py, lines 18-24: the check of the scrape step, then the
\* extraction step starts extract.py
PipelineExtract ==
    /\ pc = "scraped"
    /\ IF returncodes["main.py"] # 0
       THEN Exit(1) /\ io' = io
       ELSE /\ io' = Append(io, Did("run", "extract.py", <<>>))
            /\ pc' = "extract"
            /\ ret' = ret
    /\ UNCHANGED <<no_extraction, arg, scraping>>

\* extract.py as a subprocess: main ends with code 1 without the key (lines
\* 294-300); with it, iter_jobs (225-246) reads json/raw_jobs.json when that
\* exists, and main writes its output and returns (363-545)
ExtractStep ==
    /\ pc = "extract"
    /\ IF Missing(arg.OPENAI_API_KEY)
       THEN /\ returncodes' = Bind(returncodes, {"extract.py"}, 1)
            /\ io' = io
       ELSE /\ returncodes' = Bind(returncodes, {"extract.py"}, 0)
            /\ io' = io
                \o (IF "raw_jobs.json" \in DOMAIN json_dir
                    THEN <<Did("read", "raw_jobs.json", json_dir["raw_jobs.json"].jobs)>>
                    ELSE <<>>)
                \o <<Did("write", "master_jobs.json", <<>>)>>
    /\ pc' = "extracted"
    /\ UNCHANGED <<no_extraction, arg, ret, page, job_links, link_i, all_jobs, selected,
                   sel_i, results, jsonFiles>>

\* run_pipeline.py, lines 25-29: the check of the extraction step
PipelineComplete ==
    /\ pc = "extracted"
    /\ IF returncodes["extract.py"] # 0
       THEN Exit(1) /\ io' = io
       ELSE Exit(0) /\ io' = Append(io, Did("print", "Pipeline complete!", <<>>))
    /\ UNCHANGED <<no_extraction, arg, scraping>>

NextPipeline ==
    \/ PipelineScrape
    \/ MainStart
    \/ RunScraper
    \/ SaveSnapshot
    \/ MainExit
    \/ PipelineExtract
    \/ ExtractStep
    \/ PipelineComplete

SpecPipeline == InitPipeline /\ [][NextPipeline]_vars

-----------------------------------------------------------------------------
(* Properties of the extraction run (checked under Spec) *)

Range(s) == { s[k] : k \in DOMAIN s }
JobIdx == 1..Len(jobs_list)
LoopOver == pc \in {"save", "write", "done"}

\* the job at position k is older than the cutoff
IsOld(k) ==
    LET d == pick_date(jobs_list[k]) IN d # None /\ d < today - max_age_days

IsEmpty(k) == build_text(jobs_list[k]) = <<>>

\* C1: when the loop reaches a job that passes the age filter and whose apply URL
\* is a key of the cache, the step taken for that job issues no LLM request.
C1_NoLLMForCachedUrl ==
    [][(pc = "loop" /\ i <= Len(jobs_list) /\ ~IsOld(i)
        /\ apply_url_of(jobs_list[i]) \in DOMAIN cache)
       => (llm_sent' = llm_sent /\ pc' # "llm")]_vars

\* a job with text, whose URL is cached, was answered from the cache, not by the LLM
C1_Witness ==
    \E k \in examined :
        /\ ~IsEmpty(k)
        /\ k \in contributed
        /\ k \notin Range(llm_sent)
        /\ apply_url_of(jobs_list[k]) \in DOMAIN cache

\* C2: on a cache hit the appended record has the fields of the cached record,
\* except _source, which is the raw job's _source (the input file name when the
\* job has none); the cache is unchanged by the hit.
C2_HitReusesCachedRecord ==
    [][cache_hits' # cache_hits =>
        LET cached == cache[apply_url_of(jobs_list[i])].data
            rec == extracted'[Len(extracted')]
        IN  /\ Len(extracted') = Len(extracted) + 1
            /\ SubSeq(extracted', 1, Len(extracted)) = extracted
            /\ DOMAIN rec = DOMAIN cached
            /\ \A f \in DOMAIN cached \ {"_source"} : rec[f] = cached[f]
            /\ rec._source = IF jobs_list[i]._source = Absent
                              THEN "raw_jobs.json" ELSE jobs_list[i]._source
            /\ cache' = cache]_vars

\* a hit whose record carries a source tag other than the cached one
C2_Witness ==
    /\ cache_hits > 0
    /\ llm_sent = <<>>
    /\ \E k \in 1..Len(extracted) :
         /\ extracted[k].apply_url \in DOMAIN cache
         /\ extracted[k]._source # cache[extracted[k].apply_url].data._source

\* C3: a job whose best-available date is strictly before today - max_age_days is
\* never looked up in the cache, never sent to the LLM, never adds a record, and
\* skipped_old counts exactly the examined jobs of that kind (so a job dated at
\* the cutoff is not counted).
C3_OldJobsSkipped ==
    /\ \A k \in JobIdx :
         IsOld(k) => k \notin lookups /\ k \notin Range(llm_sent) /\ k \notin contributed
    /\ skipped_date = Cardinality({ k \in examined : IsOld(k) })

\* an old job was skipped and a job dated exactly at the cutoff added a record
C3_Witness ==
    /\ skipped_date > 0
    /\ \E k \in contributed : pick_date(jobs_list[k]) = today - max_age_days

\* C4 (as claimed, in what a run shows of it): an empty-text job that passes the
\* age filter is never sent to the LLM, adds no record to the output and is
\* counted in skipped_empty, whether or not its apply URL is in the cache.
C4_EmptyAlwaysSkipped ==
    /\ \A k \in examined :
         (IsEmpty(k) /\ ~IsOld(k)) => k \notin Range(llm_sent) /\ k \notin contributed
    /\ skipped_empty = Cardinality({ k \in examined : IsEmpty(k) /\ ~IsOld(k) })

\* C4 (amended): an empty-text job is never sent to the LLM; it adds a record only
\* as a cache hit (its apply URL is a key of the cache); skipped_empty counts the
\* examined empty-text jobs that pass the age filter and are not cache hits.
C4_EmptySkippedUnlessHit ==
    /\ \A k \in examined :
         IsEmpty(k) =>
            /\ k \notin Range(llm_sent)
            /\ k \in contributed => apply_url_of(jobs_list[k]) \in DOMAIN cache
    /\ skipped_empty =
         Cardinality({ k \in examined : IsEmpty(k) /\ ~IsOld(k) /\ k \notin contributed })

\* an empty-text job was a cache hit, another one was skipped as empty
C4_Witness ==
    /\ skipped_empty > 0
    /\ \E k \in contributed : IsEmpty(k)

\* C5: with max > 0 processed never exceeds max, and once it has reached max no
\* job is examined and no counter changes; with max = 0 every job is examined.
C5_CapStopsTheLoop ==
    /\ [](max > 0 => processed <= max)
    /\ [][(max > 0 /\ processed >= max)
           => UNCHANGED <<examined, lookups, llm_sent, counters, cache, i>>]_vars
    /\ []((pc = "done" /\ max = 0) => examined = JobIdx)

\* the cap stopped a run that had jobs left
C5_Witness ==
    /\ pc = "done"
    /\ max > 0
    /\ processed = max
    /\ examined # JobIdx

\* C6: with max > 0 the number of LLM requests issued in a run never exceeds max,
\* whatever requests fail.
C6_RequestsWithinCap == max > 0 => Len(llm_sent) <= max

\* C7 (as claimed): when the loop is over, no examined job has a best-available
\* date older than that of a job left unexamined (no date counting as oldest).
C7_ExaminedNewestFirst ==
    LoopOver =>
        \A k \in examined : \A m \in JobIdx \ examined :
            pick_date(jobs_list[k]) >= pick_date(jobs_list[m])

\* C10: a failed LLM call or post-processing adds one to errors and nothing to the
\* output or the cache; the loop goes on with the next job, every job is examined
\* unless the cap stops the run, and the output file is written: the run is always
\* at a position that has a next step (in the loop, at a job of the list) until
\* it is done, and when it is done the file holds the counters and the records.
C10_FailureIsCaught ==
    /\ [][errors' # errors =>
            /\ errors' = errors + 1
            /\ extracted' = extracted
            /\ contributed' = contributed
            /\ processed' = processed
            /\ cache' = cache
            /\ \/ pc' = "loop" /\ i' = i + 1 /\ i' <= Len(jobs_list)
               \/ pc' = "save" /\ i = Len(jobs_list)]_vars
    /\ [](pc # "llm" => errors = Cardinality(Range(llm_sent) \ contributed))
    /\ [](pc \in {"start", "llm", "save", "write", "done"}
          \/ (pc = "loop" /\ i <= Len(jobs_list)))
    /\ [](pc = "done" =>
            /\ outFile.written
            /\ outFile.metadata.errors = errors
            /\ Len(outFile.jobs) <= Cardinality(contributed)
            /\ ~(max > 0 /\ processed >= max) => examined = JobIdx)

\* a run with a failed job and a later job that added a record wrote its output
C10_Witness ==
    /\ pc = "done"
    /\ outFile.written
    /\ \E k \in contributed : \E m \in Range(llm_sent) \ contributed : m < k

-----------------------------------------------------------------------------
(* Properties of deduplicate_jobs (checked under SpecDedup) *)

RECURSIVE IsSubseq(_, _)
IsSubseq(a, b) ==
    IF a = <<>> THEN TRUE
    ELSE IF b = <<>> THEN FALSE
    ELSE IF Head(a) = Head(b) THEN IsSubseq(Tail(a), Tail(b))
    ELSE IsSubseq(a, Tail(b))

\* the key as the claims state it: (lower-cased job_title, lower-cased company)
LowerKey(j) == <<lower(j.job_title), lower(j.company)>>

\* the key as a string: both fields stripped and lower-cased, joined by "|"
JoinedKey(j) == lower(strip(j.job_title)) \o <<"|">> \o lower(strip(j.company))

\* the first position of s whose job has the key (under K) of the job at k
FirstWith(K(_), s, k) ==
    CHOOSE m \in 1..k :
        /\ K(s[m]) = K(s[k])
        /\ \A n \in 1..(m - 1) : K(s[n]) # K(s[k])

\* the result is a subsequence without two jobs of one key, holding for each key
\* of the input the first input job with it, and a second pass changes nothing
DedupContract(K(_)) ==
    pc = "dd_done" =>
        /\ IsSubseq(dd_once, dd_in)
        /\ \A a, b \in 1..Len(dd_once) : a # b => K(dd_once[a]) # K(dd_once[b])
        /\ \A k \in 1..Len(dd_in) :
             /\ \E a \in 1..Len(dd_once) : dd_once[a] = dd_in[FirstWith(K, dd_in, k)]
             /\ \A b \in 1..Len(dd_once) :
                  K(dd_once[b]) = K(dd_in[k]) => dd_once[b] = dd_in[FirstWith(K, dd_in, k)]
        /\ dd_st.unique_jobs = dd_once

\* C8 (as claimed): the contract with the key (lower-cased title, lower-cased company).
C8_DedupByLowerKey == DedupContract(LowerKey)

\* C8 (amended): the contract with the key strip+lower(title) "|" strip+lower(company).
C8_DedupByJoinedKey == DedupContract(JoinedKey)

\* a list of which one job was removed and two were kept
C8_Witness ==
    /\ pc = "dd_done"
    /\ Len(dd_once) >= 2
    /\ Len(dd_once) < Len(dd_in)

\* a job is removed iff an earlier job of the input has the same key (under K)
RemovedIff(K(_)) ==
    pc # "dd_first" =>
        \A k \in 1..Len(dd_in) :
            k \notin dd_kept <=> \E m \in 1..(k - 1) : K(dd_in[m]) = K(dd_in[k])

\* C9 (as claimed): removed iff an earlier job has the same lower-cased title and
\* the same lower-cased company.
C9_RemovedIffLowerKey == RemovedIff(LowerKey)

\* C9 (amended): removed iff an earlier job has the same joined key.
C9_RemovedIffJoinedKey == RemovedIff(JoinedKey)

\* a job was removed although it differs from every earlier job in lower-cased
\* title or lower-cased company
C9_Witness ==
    /\ pc = "dd_done"
    /\ \E k \in 1..Len(dd_in) :
         /\ k \notin dd_kept
         /\ \A m \in 1..(k - 1) : LowerKey(dd_in[m]) # LowerKey(dd_in[k])

-----------------------------------------------------------------------------
(* Properties of normalize_how_to_apply (checked under SpecCalls) *)

Returned == pc = "returned" /\ arg.fn = "normalize_how_to_apply"

\* the text the decision is taken on: the application section, else the whole content
SourceTextOf(a) ==
    IF extract_apply_section(a.raw_job.raw_content) # <<>>
    THEN extract_apply_section(a.raw_job.raw_content)
    ELSE clean_text(a.raw_job.raw_content)

\* the texts of the bullets the LLM gave
ModelTextOf(a) == IF a.model_list.list THEN join(a.model_list.items) ELSE <<>>

\* a text holds a URL ("http://", "https://" or "www.", in any letter case)
HoldsUrl(t) ==
    \E k \in 1..Len(t) :
        \/ lower(t)[k] \in {"https://x.org/job", "https://x", "http://x/jobs", "www.x.org"}
        \/ lower(t)[k] = "www" /\ k < Len(t) /\ t[k + 1] = "."

\* a text holds the characters "http"
HoldsHttp(t) ==
    \E k \in 1..Len(t) :
        t[k] \in {"http", "https://x.org/job", "https://x", "http://x/jobs"}

\* a text holds the characters "www."
HoldsWwwDot(t) ==
    \E k \in 1..Len(t) :
        t[k] = "www.x.org" \/ (t[k] = "www" /\ k < Len(t) /\ t[k + 1] = ".")

\* a text holds an e-mail address
HoldsEmail(t) == \E k \in 1..Len(t) : t[k] \in {"hr@x.org", "HR@X.ORG"}

\* C12 (as claimed): no returned bullet contains "http", "www." or an e-mail
\* address, whatever the raw content, the model bullets and the subject line hold.
C12_NoHttpWwwEmail ==
    Returned =>
        \A b \in 1..Len(ret) :
            ~HoldsHttp(ret[b]) /\ ~HoldsWwwDot(ret[b]) /\ ~HoldsEmail(ret[b])

\* C12 (amended): no returned bullet contains a URL ("http://", "https://" or
\* "www." in any letter case) or an e-mail address.
C12_NoUrlNoEmail ==
    Returned => \A b \in 1..Len(ret) : ~HoldsUrl(ret[b]) /\ ~HoldsEmail(ret[b])

\* the content, the model bullets and the subject line held an address and a URL,
\* and the subject line was kept in the e-mail bullet
C12_Witness ==
    /\ Returned
    /\ HoldsEmail(arg.raw_job.raw_content) /\ HoldsUrl(arg.raw_job.raw_content)
    /\ HoldsEmail(ModelTextOf(arg))
    /\ Has(arg.raw_job.raw_content,
           <<"Subject", ":", " ", "hr@x.org", " ", "https://x.org/job", " ", "Nurse">>)
    /\ Len(ret) = 2
    /\ Has(ret[1], <<"Subject", ":", " ", "Nurse", ".">>)

\* what the decision looks at
PortalDetected(a) == is_portal_apply(SourceTextOf(a), a.apply_url)
EmailDetected(a) ==
    \/ \E k \in 1..Len(SourceTextOf(a)) :
          lower(SourceTextOf(a))[k] \in {"email", "[email", "e-mail"}
    \/ has_protected_email(clean_text(a.raw_job.raw_content))
    \/ has_protected_email(ModelTextOf(a))

IsEmailBullet(b) == Len(b) >= Len(EmailTheAddress) /\ SubSeq(b, 1, Len(EmailTheAddress)) = EmailTheAddress

\* the subject line makes the e-mail bullet one that the cleaning discards: it
\* holds a URL in upper-case letters, ends in "www" (before the closing "."), or
\* holds the phrase of line 194
SubjectDiscards(a) ==
    LET subject == extract_subject(SourceTextOf(a))
    IN  \/ HoldsUrl(subject \o <<".">>)
        \/ Has(lower(subject), see_original_listing)

\* C13 (as claimed): portal marker in the application text or the apply URL: the
\* two portal bullets, even with an e-mail instruction; else e-mail instruction or
\* protected-email marker: the e-mail bullet; else one generic Apply Now bullet.
C13_PriorityOrder ==
    Returned =>
        IF PortalDetected(arg) THEN ret = <<PortalBullet, ClickApplyNow>>
        ELSE IF EmailDetected(arg) THEN IsEmailBullet(ret[1])
        ELSE ret \in {<<ClickApplyNow>>, <<ApplyViaButton>>}

\* C13 (amended): as claimed, except that the e-mail bullet is discarded by the
\* cleaning, leaving the bullet "Click Apply Now for full details." alone, exactly
\* when its subject line makes it look like a URL or holds the placeholder phrase;
\* the generic bullet is "Apply via the Apply Now button ..." with an apply URL and
\* "Click Apply Now ..." without one.
C13_PriorityOrderUnlessDiscarded ==
    Returned =>
        IF PortalDetected(arg) THEN ret = <<PortalBullet, ClickApplyNow>>
        ELSE IF EmailDetected(arg)
             THEN IF SubjectDiscards(arg) THEN ret = <<ClickApplyNow>>
                  ELSE Len(ret) = 2 /\ IsEmailBullet(ret[1]) /\ ret[2] = ClickApplyNow
        ELSE ret = IF arg.apply_url # "" THEN <<ApplyViaButton>> ELSE <<ClickApplyNow>>

\* a portal marker won over an e-mail instruction
C13_Witness ==
    /\ Returned
    /\ PortalDetected(arg)
    /\ EmailDetected(arg)
    /\ ret = <<PortalBullet, ClickApplyNow>>

-----------------------------------------------------------------------------
(* Properties of parse_date and parse_relative_deadline (checked under        *)
(* SpecCalls)                                                                 *)

ParseDateReturned == pc = "returned" /\ arg.fn = "parse_date"

ParseRelativeReturned == pc = "returned" /\ arg.fn = "parse_relative_deadline"

\* the days the spec gives a unit: a day is 1, a week 7, a month 30
DaysOfUnit(unit) ==
    IF unit \in {"day", "days"} THEN 1
    ELSE IF unit \in {"week", "weeks"} THEN 7
    ELSE 30

\* C19: parse_relative_deadline returns anchor + amount * days of the unit for
\* the first amount-unit pair of the text (the amount in digits, as a number
\* word, parenthesized, or as word and digits together), and None when there is
\* no anchor, no pair, or the number of days is not positive.
C19_AnchorPlusDays ==
    ParseRelativeReturned =>
        ret = IF \/ arg.anchor_date = None
                 \/ ~arg.pair
                 \/ arg.amount * DaysOfUnit(arg.unit) <= 0
              THEN None
              ELSE arg.anchor_date + arg.amount * DaysOfUnit(arg.unit)

\* a deadline written with a number word and a parenthesized number, in weeks,
\* resolved from an anchor
C19_Witness ==
    /\ ParseRelativeReturned
    /\ arg.anchor_date # None
    /\ arg.unit = "weeks"
    /\ Has(arg.text, <<"six", " ", "(", "6", ")", " ", "weeks">>)
    /\ ret = arg.anchor_date + 42

-----------------------------------------------------------------------------
(* Properties of classify_job_category (checked under SpecCalls) *)

Classified == pc = "returned" /\ arg.fn = "classify_job_category"

\* the order of the groups, as the spec gives it
GroupOrder ==
    <<"Dentist", "Medical Laboratory Scientist", "Pharmacist", "Nurse", "Doctor",
      "Public Health", "Healthcare Management", "Allied Health">>

\* the label of the first group of GroupOrder that matches t, "" when none does
FirstGroup(t) ==
    LET hits == { g \in 1..Len(GroupOrder) : Matches(GroupOrder[g], t) }
    IN  IF hits = {} THEN "" ELSE GroupOrder[First(hits)]

-----------------------------------------------------------------------------
(* Properties of the overlay (checked under SpecCalls) *)

Overlaid == pc = "returned" /\ arg.fn = "overlay"

\* one or two bullets, the last one with the call to action
OneOrTwoEndingApplyNow(bullets) ==
    /\ Len(bullets) \in {1, 2}
    /\ Has(bullets[Len(bullets)], <<"Apply", " ", "Now">>)

\* C11: normalize_how_to_apply returns one or two bullets whose last bullet
\* holds "Apply Now", and so the how_to_apply of every record the overlay
\* produces has that shape.
C11_OneOrTwoBullets ==
    /\ Returned => OneOrTwoEndingApplyNow(ret)
    /\ Overlaid => OneOrTwoEndingApplyNow(ret.how_to_apply)

\* two bullets were returned, the first one the email line
C11_Witness ==
    /\ Returned
    /\ Len(ret) = 2
    /\ IsEmailBullet(ret[1])
    /\ ret[2] = ClickApplyNow

\* C15: after the overlay job_category is the label of the title's keywords
\* when the title has one, whatever the LLM returned, and the LLM's category
\* when it has none.
C15_TitleCategoryWins ==
    Overlaid =>
        ret.job_category = IF arg.label # "" THEN arg.label ELSE arg.data.job_category

\* the LLM said Other, the title says Nurse
C15_Witness ==
    /\ Overlaid
    /\ arg.data.job_category = "Other"
    /\ arg.label = "Nurse"
    /\ ret.job_category = "Nurse"

\* C16: after the overlay the deadline is the ISO form of the absolute date
\* the LLM's deadline was written from; else, for a relative deadline, of the
\* anchor plus its days, the anchor being the job's posting date or, without
\* one, its scrape date; else the LLM's string unchanged.
C16_AbsoluteThenRelative ==
    Overlaid =>
        LET dl == arg.deadline
            from == IF arg.posted # None THEN {arg.posted} ELSE arg.scraped
        IN  IF dl.kind = "absolute" THEN ret.deadline = isoformat(dl.n)
            ELSE IF dl.kind = "relative" /\ from # {}
                 THEN \E a \in from : ret.deadline = isoformat(a + dl.n)
            ELSE ret.deadline = arg.data.deadline

\* a relative deadline resolved from the scrape date of a job without a
\* posting date
C16_Witness ==
    /\ Overlaid
    /\ arg.deadline.kind = "relative"
    /\ arg.posted = None
    /\ arg.scraped = {2}
    /\ ret.deadline = isoformat(2 + arg.deadline.n)

-----------------------------------------------------------------------------
(* Properties of the records of the extraction run (checked under Spec) *)

\* the index in jobs_list of the job that appended extracted[k]
JobOfRecord(k) ==
    CHOOSE n \in contributed : Cardinality({ m \in contributed : m <= n }) = k

\* C14: the record of a raw job whose raw content holds a protected-email
\* marker has an empty contact_email and no email address in how_to_apply,
\* on the LLM path and on the cache path.
C14_ProtectedJobHasNoEmail ==
    Len(extracted) = Cardinality(contributed) =>
        \A k \in 1..Len(extracted) :
            has_protected_email(jobs_list[JobOfRecord(k)].raw_content) =>
                /\ extracted[k].contact_email = <<>>
                /\ \A b \in 1..Len(extracted[k].how_to_apply) :
                       ~HoldsEmail(extracted[k].how_to_apply[b])

-----------------------------------------------------------------------------
(* Properties of the files and counters of the extraction run (checked under  *)
(* Spec)                                                                      *)

\* C25: the cache file is written once, in the step after the loop and before
\* the output file is written; until then it is as it was at the start.
C25_CacheWrittenOnceAtEnd ==
    /\ [](pc \in {"start", "loop", "llm", "save"} => cache_writes = 0 /\ ~outFile.written)
    /\ [](pc \in {"write", "done"} => cache_writes = 1)
    /\ [][cacheFile' # cacheFile \/ cache_writes' # cache_writes
            => /\ pc = "save" /\ pc' = "write"
               /\ i > Len(jobs_list) \/ (max # 0 /\ processed >= max)
               /\ cacheFile'.valid /\ cacheFile'.data = cache
               /\ ~outFile.written]_vars

\* a finished run that called the LLM and saved a cache other than the one it loaded
C25_Witness ==
    /\ pc = "done" /\ outFile.written /\ cache_writes = 1
    /\ Len(llm_sent) > 0 /\ contributed # {}
    /\ cacheFile.data # NoCache

\* the jobs of the run that went through the LLM and gave a record
LLMExtracted == { k \in contributed : \E n \in 1..Len(llm_sent) : llm_sent[n] = k }

\* the lookup of lines 383-387 for a raw job, in the cache a run loads from a file
HitsIn(file, j) ==
    /\ apply_url_of(j) \in DOMAIN load_cache(file)
    /\ "data" \in DOMAIN load_cache(file)[apply_url_of(j)]

\* C27: after a finished run, every raw job with an apply URL that the run
\* extracted through the LLM is found by its lookup key in the saved cache file.
C27_StoredUnderLookupKey ==
    pc = "done" =>
        \A k \in LLMExtracted :
            apply_url_of(jobs_list[k]) # "" => HitsIn(cacheFile, jobs_list[k])

\* C29: every examined job has added one to exactly one of processed,
\* skipped_old, skipped_empty, errors (a job at the LLM has not yet), and the
\* output holds total_processed - duplicates_removed jobs.
C29_OneCounterPerJob ==
    /\ Cardinality(examined)
         = processed + skipped_date + skipped_empty + errors
           + (IF pc = "llm" THEN 1 ELSE 0)
    /\ outFile.written =>
        /\ Cardinality(examined)
             = outFile.metadata.total_processed + outFile.metadata.skipped_old
               + outFile.metadata.skipped_empty + outFile.metadata.errors
        /\ Len(outFile.jobs)
             = outFile.metadata.total_processed - outFile.metadata.duplicates_removed

\* a finished run with two processed jobs, one of them removed as a duplicate,
\* and a job that was skipped or failed
C29_Witness ==
    /\ pc = "done" /\ outFile.written
    /\ outFile.metadata.total_processed > 1
    /\ outFile.metadata.duplicates_removed > 0
    /\ outFile.metadata.skipped_old + outFile.metadata.skipped_empty
         + outFile.metadata.errors > 0

-----------------------------------------------------------------------------
(* Properties of the entry points (checked under SpecEntry) *)

Exited == pc = "exited"

\* a credential the entry point requires is missing (the newsletter in send
\* mode)
CredentialMissing ==
    \/ arg.entry = "extract" /\ Missing(arg.OPENAI_API_KEY)
    \/ /\ arg.entry = "newsletter"
       /\ ~dry_run(arg.NEWSLETTER_DRY_RUN)
       /\ Missing(arg.BREVO_API_KEY) \/ Missing(arg.BREVO_LIST_ID)

\* C20: with a required credential missing the process exits non-zero and has
\* read no input, written no file and made no request.
C20_ExitsBeforeAnyWork ==
    /\ CredentialMissing => io = <<>>
    /\ Exited /\ CredentialMissing => ret # 0

\* the input file of the step does not exist
InputMissing ==
    \/ arg.entry = "extract" /\ ~arg.raw_jobs.exists
    \/ arg.entry = "newsletter" /\ ~arg.master_jobs.exists

\* the files the process has written
FilesWritten == { io[k].what : k \in { n \in 1..Len(io) : io[n].op = "write" } }

\* C21: a step whose input file is missing goes on with zero jobs: it does not
\* exit with an error (extraction with its key set; the newsletter).
C21_MissingInputMeansZeroJobs ==
    /\ Exited /\ InputMissing /\ ~CredentialMissing => ret = 0
    /\ Exited /\ InputMissing /\ ret = 0 /\ arg.entry = "extract"
       => "docs/master_jobs.json" \in FilesWritten

\* the positions in io of the requests to an endpoint, and a request that got a
\* status code back
Posts(what) == { k \in 1..Len(io) : io[k] = Event("post", what) }
Answered(k, status_code) == k < Len(io) /\ io[k + 1] = Event("response", status_code)

\* newsletter.main gets as far as send_campaign
Sending ==
    /\ arg.entry = "newsletter"
    /\ arg.master_jobs.exists /\ arg.master_jobs.jobs > 0
    /\ ~dry_run(arg.NEWSLETTER_DRY_RUN)

\* C24: at most one create and one send-now request; send-now only after the
\* create request returned 201; send_campaign succeeds (main exits 0) only
\* with 201 then 204; no request in dry-run mode or with zero jobs.
C24_CreateThenSendNow ==
    /\ Cardinality(Posts("emailCampaigns")) <= 1
    /\ Cardinality(Posts("emailCampaigns/sendNow")) <= 1
    /\ \A k \in Posts("emailCampaigns/sendNow") :
          \E c \in Posts("emailCampaigns") : c + 1 < k /\ Answered(c, "201")
    /\ Sending /\ Exited /\ ret = 0
       => /\ \E c \in Posts("emailCampaigns") : Answered(c, "201")
          /\ \E k \in Posts("emailCampaigns/sendNow") : Answered(k, "204")
    /\ arg.entry = "newsletter" /\ ~Sending
       => Posts("emailCampaigns") \cup Posts("emailCampaigns/sendNow") = {}

\* a newsletter run that sent the campaign
C24_Witness ==
    /\ Exited /\ ret = 0 /\ Sending
    /\ \E k \in Posts("emailCampaigns/sendNow") : Answered(k, "204")

-----------------------------------------------------------------------------
(* Properties of the scrapers (checked under SpecScrape) *)

\* the positions in io of the requests, and of the requests that failed
Gets == { k \in 1..Len(io) : io[k].op = "get" }
FailedGets == { k \in Gets : io[k + 1].what = "None" }

\* the listing entries of the jobs that run() returned
Returned_links ==
    IF arg.scraper = "medlocum" THEN { ret[k] : k \in 1..Len(ret) }
    ELSE { ret[k].link : k \in 1..Len(ret) }

\* C23: after a failed fetch the scraper still requests the next listing page,
\* or the page of the next job, and run() returns the jobs of every listing
\* page that was fetched.
C23_FailedFetchCostsOneItem ==
    pc = "returned" =>
        /\ \A k \in FailedGets :
            /\ io[k].what = "listing" /\ io[k].n < SCRAPER_CONFIG[arg.scraper].max_pages
               => \E m \in Gets : m > k /\ io[m] = Get("listing", io[k].n + 1)
            /\ io[k].what = "job" /\ io[k].n < Len(job_links)
               => \E m \in Gets : m > k /\ io[m] = Get("job", io[k].n + 1)
        /\ \A k \in Gets \ FailedGets :
            io[k].what = "listing"
            => \A place \in 1..io[k + 1].n :
                   [page |-> io[k].n, place |-> place] \in Returned_links

\* C26: between any two requests of a scraper there is a sleep.
C26_SleepBetweenRequests ==
    \A k \in Gets : \A m \in Gets :
        k < m => \E n \in (k + 1)..(m - 1) : io[n].op = "sleep"

-----------------------------------------------------------------------------
(* Properties of the pipeline (checked under SpecPipeline) *)

\* the positions in io where a program was started as a subprocess
Started(what) == { k \in 1..Len(io) : io[k].op = "run" /\ io[k].what = what }

\* both steps have ended, each with exit code 0
BothStepsSucceeded ==
    /\ DOMAIN returncodes = {"main.py", "extract.py"}
    /\ \A step \in DOMAIN returncodes : returncodes[step] = 0

\* run_pipeline printed that the pipeline is complete
ReportedComplete == \E k \in 1..Len(io) : io[k].op = "print"

\* C22: run_pipeline starts extract.py only after main.py was started and has
\* ended with exit code 0; once a step has ended with a code other than 0 the
\* run ends with a code other than 0; it prints that the pipeline is complete,
\* and ends with code 0, only when both steps ended with code 0.
C22_ExtractionOnlyAfterScrapeSucceeded ==
    arg.entry = "run_pipeline" =>
        /\ \A k \in Started("extract.py") :
            /\ \E m \in Started("main.py") : m < k
            /\ "main.py" \in DOMAIN returncodes
            /\ returncodes["main.py"] = 0
        /\ Exited /\ (\E step \in DOMAIN returncodes : returncodes[step] # 0) => ret # 0
        /\ ReportedComplete => BothStepsSucceeded
        /\ Exited /\ ret = 0 => BothStepsSucceeded /\ ReportedComplete

\* a pipeline run that scraped jobs, extracted and reported success
C22_Witness ==
    /\ arg.entry = "run_pipeline"
    /\ Exited /\ ret = 0
    /\ ReportedComplete
    /\ Started("extract.py") # {}
    /\ all_jobs # <<>>

\* a pipeline run that ended with code 1 because the scrape step failed
C22_ScrapeFailed ==
    /\ arg.entry = "run_pipeline"
    /\ Exited /\ ret = 1
    /\ DOMAIN returncodes = {"main.py"}

\* C28: in a pipeline run whose extraction step ran to its end, the extraction
\* step read a file that the scrape step of this run wrote, and the jobs it
\* read are the jobs the scrape step collected.
C28_ExtractionReadsTheSnapshot ==
    /\ arg.entry = "run_pipeline"
    /\ "extract.py" \in DOMAIN returncodes
    /\ returncodes["extract.py"] = 0
    => \E k \in 1..Len(io) :
        /\ io[k].op = "read"
        /\ io[k].jobs = all_jobs
        /\ \E m \in 1..(k - 1) : io[m].op = "write" /\ io[m].what = io[k].what

\* the runs of scrapers in io, in order, and the jobs they returned
ScraperRunsIn(events) == SelectSeq(events, LAMBDA e : e.op \in {"returned", "raised"})

RECURSIVE JobsReturned(_)
JobsReturned(events) ==
    IF events = <<>> THEN <<>> ELSE Head(events).jobs \o JobsReturned(Tail(events))

\* C30: when main.py has ended, the scrapers run are the selected names that are
\* known and enabled, in order, whether or not one of them raised; the snapshot
\* holds the jobs of the runs that returned; a scraper that raised is recorded
\* with status error and the exit code is not 0; no unknown or disabled name is
\* recorded.
C30_ScraperFailureIsolated ==
    arg.entry = "main" /\ Exited =>
        /\ [k \in 1..Len(ScraperRunsIn(io)) |-> ScraperRunsIn(io)[k].what]
           = Kept(selected, { name \in SCRAPERS : arg.enabled[name] })
        /\ "latest_raw_jobs.json" \in DOMAIN jsonFiles
        /\ jsonFiles["latest_raw_jobs.json"].jobs = JobsReturned(ScraperRunsIn(io))
        /\ \A name \in DOMAIN results : name \in SCRAPERS /\ arg.enabled[name]
        /\ \A k \in 1..Len(io) :
            io[k].op = "raised"
            => /\ io[k].what \in DOMAIN results
               /\ results[io[k].what].status = "error"
               /\ ret # 0

====
